---- MODULE Spec2Model ----
(***************************************************************************)
(* A state-machine model of the mpmc channel library: the array (bounded   *)
(* ring), list (unbounded block list) and zero (rendezvous) flavors, the   *)
(* Context / Waker park-notify substrate and the endpoint Counter.         *)
(*                                                                         *)
(* Every action is one atomic access to shared memory (a load, a store, a  *)
(* CAS, a fetch_or) or one mutex critical section, together with the       *)
(* thread-local computation that follows it.  Atomics are interleaved      *)
(* sequentially consistently.  Pointers are 1-tuples (<<i>>), the null     *)
(* pointer is the empty tuple.  A message is <<sender, serial>>.           *)
(***************************************************************************)
EXTENDS Integers, Sequences, FiniteSets, TLC

(* ------------------------------ bounds -------------------------------- *)
NSenders == 2
NReceivers == 2
MaxMsgs == 2
Cap == 1
MaxCap == 2
MaxThreads == 3
MaxReceivers == 1
MaxDisc == 1
FairThreads == 2
MaxSpinners == 1
MaxStep == 8

Senders == 1..NSenders
Receivers == (NSenders + 1)..(NSenders + NReceivers)
Threads == Senders \cup Receivers

(* --------------------------- program constants ------------------------ *)
Waiting == 0
Aborted == 1
Disconnected == 2
SPIN_LIMIT == 6

Null == << >>
NoMsg == << >>

VARIABLES
    \* per thread: position in the code and the locals of the call in progress
    pc, kind, deadline, msg, token, loc, loc2, backoff,
    \* per thread: the Context (select, packet) and the thread's park token
    select, cx_packet, park_token,
    \* list only: the locals block and next_block of start_send / start_recv
    block, next_block,
    \* the channel (mod.rs: SenderFlavor / ReceiverFlavor): which flavor it is,
    \* array::Channel {head, tail, buffer, senders, receivers},
    \* list::Channel {head, tail, receivers} and the heap of its blocks,
    \* zero::Channel {inner} and the packet on each thread's stack
    flavor, head, tail, buffer, senders, receivers, blocks, inner, packet,
    \* counter::Counter and the number of times its allocation was freed
    counter, freed,
    \* per thread: the CPU spin hints the Backoff call in progress has executed
    \* and the times the thread has yielded in spin_heavy
    spin_hints, yields,
    \* history: calls started, messages whose send returned Ok, messages
    \* returned in an error, messages returned by recv (per receiver, in order),
    \* how often each receiver was returned Disconnected, tail reservations in
    \* order
    started, sent_ok, sent_err, recvd, saw_disc, tail_log

tvars == <<kind, deadline, msg, token, loc, loc2, backoff>>
cxvars == <<select, cx_packet, park_token>>
avars == <<head, tail, buffer, senders, receivers>>
\* what the array flavor never touches
bvars == <<spin_hints, yields>>
nonarray == <<block, next_block, flavor, blocks, inner, packet, bvars>>
cvars == <<counter, freed>>
hvars == <<started, sent_ok, sent_err, recvd, saw_disc, tail_log>>
vars == <<pc, tvars, cxvars, avars, cvars, hvars, nonarray>>

(* ------------------------------ helpers ------------------------------- *)
Min(S) == CHOOSE x \in S : \A y \in S : x <= y

RemoveAt(s, i) == SubSeq(s, 1, i - 1) \o SubSeq(s, i + 1, Len(s))

\* x & b # 0, for b a power of two
TestBit(x, b) == (x \div b) % 2 = 1
\* x | b
SetBit(x, b) == IF TestBit(x, b) THEN x ELSE x + b
\* x & !b
ClearBit(x, b) == IF TestBit(x, b) THEN x - b ELSE x

RECURSIVE PowerOfTwoFrom(_, _)
PowerOfTwoFrom(p, n) == IF p >= n THEN p ELSE PowerOfTwoFrom(2 * p, n)
next_power_of_two(n) == PowerOfTwoFrom(1, n)

(* ------------------------------ select.rs ----------------------------- *)
\* Operation::hook: the address of the caller's token, asserted > 2
Operation_hook(t) == t + Disconnected

(* ------------------------------ waker.rs ------------------------------ *)
Waker_new == [selectors |-> << >>, observers |-> << >>]

Waker_register_with_packet(w, oper, pkt, cx) ==
    [w EXCEPT !.selectors = Append(@, [oper |-> oper, packet |-> pkt, cx |-> cx])]

Waker_register(w, oper, cx) == Waker_register_with_packet(w, oper, Null, cx)

\* position of the entry unregister removes, 0 when there is none
Waker_find(w, oper) ==
    LET S == {i \in 1..Len(w.selectors) : w.selectors[i].oper = oper}
    IN  IF S = {} THEN 0 ELSE Min(S)

Waker_unregister(w, oper) ==
    IF Waker_find(w, oper) = 0 THEN w
    ELSE [w EXCEPT !.selectors = RemoveAt(@, Waker_find(w, oper))]

\* a try_select that takes the first entry, whichever thread registered it
\* and whatever that thread's context has selected
Waker_try_select_first(w, caller) == IF Len(w.selectors) = 0 THEN 0 ELSE 1

\* a try_select that picks the last entry that qualifies, not the first
Waker_try_select_last(w, caller) ==
    LET S == {i \in 1..Len(w.selectors) :
                /\ w.selectors[i].cx # caller
                /\ select[w.selectors[i].cx] = Waiting}
    IN  IF S = {} THEN 0 ELSE CHOOSE i \in S : \A j \in S : j <= i

\* position of the entry try_select picks for the calling thread, 0 if none
Waker_try_select_pos(w, caller) ==
    LET S == {i \in 1..Len(w.selectors) :
                /\ w.selectors[i].cx # caller
                /\ select[w.selectors[i].cx] = Waiting}
    IN  IF S = {} THEN 0 ELSE Min(S)

\* a try_select that selects and unparks the entry and leaves it in the list
Waker_try_select_kept(w, caller) == w

Waker_try_select(w, caller) ==
    IF Waker_try_select_pos(w, caller) = 0 THEN w
    ELSE [w EXCEPT !.selectors = RemoveAt(@, Waker_try_select_pos(w, caller))]

\* the contexts a waker call changes: (select, packet, park token) afterwards
Cx_after_try_select(w, caller) ==
    LET p == Waker_try_select_pos(w, caller) IN
    IF p = 0 THEN [select |-> select, cx_packet |-> cx_packet, park_token |-> park_token]
    ELSE LET e == w.selectors[p] IN
         [select |-> [select EXCEPT ![e.cx] = e.oper],
          cx_packet |-> [cx_packet EXCEPT ![e.cx] = e.packet],
          park_token |-> [park_token EXCEPT ![e.cx] = TRUE]]

\* Waker::notify drains the observers (never populated by the three flavors)
Waker_notify(w) == [w EXCEPT !.observers = << >>]

\* a Waker::disconnect that selects and unparks nobody
Waker_disconnect_nobody(w) == {}

\* the threads Waker::disconnect selects with Disconnected and unparks
Waker_disconnect_woken(w) ==
    {w.selectors[i].cx : i \in {j \in 1..Len(w.selectors) : select[w.selectors[j].cx] = Waiting}}

Cx_after_disconnect(woken) ==
    [select |-> [t \in Threads |-> IF t \in woken THEN Disconnected ELSE select[t]],
     cx_packet |-> cx_packet,
     park_token |-> [t \in Threads |-> IF t \in woken THEN TRUE ELSE park_token[t]]]

Waker_is_empty(w) == Len(w.selectors) = 0 /\ Len(w.observers) = 0

SyncWaker_new == [inner |-> Waker_new, is_empty |-> TRUE]

SyncWaker_refresh(w) == [inner |-> w, is_empty |-> Waker_is_empty(w)]

SyncWaker_register(sw, oper, cx) == SyncWaker_refresh(Waker_register(sw.inner, oper, cx))

\* an unregister that leaves is_empty as it found it
SyncWaker_unregister_stale(sw, oper) == [sw EXCEPT !.inner = Waker_unregister(sw.inner, oper)]

SyncWaker_unregister(sw, oper) == SyncWaker_refresh(Waker_unregister(sw.inner, oper))

\* the locked part of SyncWaker::notify
SyncWaker_notify(sw, caller) ==
    IF sw.is_empty THEN sw
    ELSE SyncWaker_refresh(Waker_notify(Waker_try_select(sw.inner, caller)))

\* a disconnect that takes the entries it has woken out of the waker
SyncWaker_disconnect_drained(sw) == SyncWaker_refresh(Waker_new)

SyncWaker_disconnect(sw) == SyncWaker_refresh(Waker_notify(sw.inner))

SetCx(c) ==
    /\ select' = c.select
    /\ cx_packet' = c.cx_packet
    /\ park_token' = c.park_token

(* ------------------------------ array.rs ------------------------------ *)
\* the field cap of the channel: the number of slots of its buffer
cap == Cardinality(DOMAIN buffer)
mark_bit == next_power_of_two(cap + 1)
one_lap == mark_bit * 2

\* select.rs: Token::default()
NullToken ==
    [array |-> [slot |-> Null, stamp |-> 0],
     list |-> [block |-> Null, offset |-> 0],
     zero |-> Null]

Goto(t, l) == pc' = [pc EXCEPT ![t] = l]

\* the locals of a call that has returned (or of a thread between calls)
Locals_dropped(t) ==
    /\ kind' = [kind EXCEPT ![t] = "none"]
    /\ deadline' = [deadline EXCEPT ![t] = FALSE]
    /\ msg' = [msg EXCEPT ![t] = NoMsg]
    /\ token' = [token EXCEPT ![t] = NullToken]
    /\ loc' = [loc EXCEPT ![t] = 0]
    /\ loc2' = [loc2 EXCEPT ![t] = 0]
    /\ backoff' = [backoff EXCEPT ![t] = 0]

\* once the reservation has succeeded the call no longer reads how it was
\* called (try or blocking, deadline) nor its Backoff
Call_decided(t) ==
    /\ kind' = [kind EXCEPT ![t] = "none"]
    /\ deadline' = [deadline EXCEPT ![t] = FALSE]
    /\ backoff' = [backoff EXCEPT ![t] = 0]

\* a call returns to its caller
Return(t) == Goto(t, "idle") /\ Locals_dropped(t)

\* what the caller of send / try_send gets back
Sent_ok(m) == sent_ok' = sent_ok \cup {m} /\ UNCHANGED <<started, sent_err, recvd, saw_disc, tail_log>>
Sent_err(m, tag) ==
    /\ sent_err' = sent_err \cup {[m |-> m, tag |-> tag]}
    /\ UNCHANGED <<started, sent_ok, recvd, saw_disc, tail_log>>
\* what the caller of recv / try_recv gets back: Ok(m), taken at position p
Received(t, m, p) ==
    /\ recvd' = [recvd EXCEPT ![t] = Append(@, [m |-> m, p |-> p])]
    /\ UNCHANGED <<started, sent_ok, sent_err, saw_disc, tail_log>>
Recv_disconnected(t) ==
    /\ saw_disc' = [saw_disc EXCEPT ![t] = @ + 1]
    /\ UNCHANGED <<started, sent_ok, sent_err, recvd, tail_log>>

(* ----- context.rs: Context::with / try_select / wait_until ----- *)
CxNow == [select |-> select, cx_packet |-> cx_packet, park_token |-> park_token]

\* Context::with resets the thread's context before the closure runs
Context_reset(c, t) ==
    [c EXCEPT !.select = [@ EXCEPT ![t] = Waiting],
              !.cx_packet = [@ EXCEPT ![t] = Null]]

\* The closure of Context::with returns.  From here to the reset that opens the
\* thread's next Context::with nothing reads the context (no waker holds an
\* entry of the thread) and a park token left over by a late unpark only makes
\* the next park return at once, after which wait_until finds Waiting and parks
\* again: the model brings both to their reset value here.
Context_leave(c, t) ==
    [select |-> [c.select EXCEPT ![t] = Waiting],
     cx_packet |-> [c.cx_packet EXCEPT ![t] = Null],
     park_token |-> [c.park_token EXCEPT ![t] = FALSE]]

\* try_select with a plain store of select in the place of compare_exchange
Context_select_store(sel, t, s) == [sel EXCEPT ![t] = s]

\* Context::try_select: CAS of select from Waiting
Context_try_select(sel, t, s) == IF sel[t] = Waiting THEN [sel EXCEPT ![t] = s] ELSE sel

\* wait_until: what one pass of its loop can come to for thread t: the values
\* it can return, and Waiting for "the thread parks".  At "abort" the caller's
\* try_select(Aborted) precedes the first load; at "wait" the load comes first
\* and a passed deadline makes the thread try_select(Aborted) itself.  A load of
\* Waiting followed by that CAS is one step: the CAS decides alone.  At "park"
\* park_timeout returns because the deadline has been reached, and the pass
\* that follows ends in the same CAS.
Context_wait_until(t) ==
    IF pc[t] = "abort" THEN {Context_try_select(select, t, Aborted)[t]}
    ELSE IF pc[t] = "wait" THEN
        IF select[t] # Waiting THEN {select[t]}
        ELSE {Waiting} \cup (IF deadline[t] THEN {Aborted} ELSE {})
    ELSE IF pc[t] = "park" /\ deadline[t]
        THEN {Context_try_select(select, t, Aborted)[t]}
    ELSE {}

\* wait_until: thread::park() / park_timeout() is entered
Context_wait_park(t) ==
    /\ Goto(t, "park")
    /\ UNCHANGED <<cxvars, tvars>>

\* thread::park / park_timeout: returns once the thread's token is set
Context_park(t) ==
    /\ pc[t] = "park"
    /\ park_token[t]
    /\ park_token' = [park_token EXCEPT ![t] = FALSE]
    /\ Goto(t, "wait")
    /\ UNCHANGED <<select, cx_packet, tvars>>

(* ----- array.rs: send side ----- *)
\* a send / try_send whose start_send does not look at the mark of tail
Array_send_unmarked(t, k, d) ==
    /\ pc[t] = "idle"
    /\ started < MaxMsgs
    /\ started' = started + 1
    /\ kind' = [kind EXCEPT ![t] = k]
    /\ deadline' = [deadline EXCEPT ![t] = d]
    /\ Goto(t, "ss_stamp")
    /\ loc' = [loc EXCEPT ![t] = ClearBit(tail, mark_bit)]
    /\ msg' = [msg EXCEPT ![t] = <<t, started + 1>>]
    /\ UNCHANGED <<backoff, token, sent_ok, sent_err, recvd, saw_disc, tail_log, cxvars, avars, cvars>>

\* send(msg, deadline) / try_send(msg) is called with the caller's next
\* message; start_send loads tail
Array_send(t, k, d) ==
    /\ pc[t] = "idle"
    /\ started < MaxMsgs
    /\ started' = started + 1
    /\ IF TestBit(tail, mark_bit)
       THEN UNCHANGED <<kind, deadline, backoff>>
       ELSE /\ kind' = [kind EXCEPT ![t] = k]
            /\ deadline' = [deadline EXCEPT ![t] = d]
            /\ UNCHANGED backoff
    /\ IF TestBit(tail, mark_bit)
       THEN /\ sent_err' = sent_err \cup {[m |-> <<t, started + 1>>, tag |-> "Disconnected"]}
            /\ UNCHANGED <<pc, msg, token, loc, sent_ok, recvd, saw_disc, tail_log>>
       ELSE /\ Goto(t, "ss_stamp")
            /\ loc' = [loc EXCEPT ![t] = tail]
            /\ msg' = [msg EXCEPT ![t] = <<t, started + 1>>]
            /\ UNCHANGED <<token, sent_ok, sent_err, recvd, saw_disc, tail_log>>
    /\ UNCHANGED <<cxvars, avars, cvars>>

\* start_send: reload tail (after a failed CAS or a spin)
Array_start_send_load(t) ==
    /\ pc[t] = "ss_load"
    /\ IF TestBit(tail, mark_bit)
       THEN /\ Return(t)
            /\ Sent_err(msg[t], "Disconnected")
       ELSE /\ Goto(t, "ss_stamp")
            /\ loc' = [loc EXCEPT ![t] = tail]
            /\ UNCHANGED <<kind, deadline, msg, token, backoff, hvars>>
    /\ UNCHANGED <<cxvars, avars, cvars>>

\* start_send without the comparison of the slot's stamp with tail: every
\* position is taken for a free slot
Array_start_send_stamp_unchecked(t) ==
    /\ pc[t] = "ss_stamp"
    /\ Goto(t, "ss_cas")
    /\ UNCHANGED <<tvars, cxvars, avars, cvars, hvars>>

\* start_send: load the slot's stamp and pick the branch
Array_start_send_stamp(t) ==
    /\ pc[t] = "ss_stamp"
    /\ LET index == loc[t] % mark_bit
           stamp == buffer[index].stamp
       IN  IF loc[t] = stamp
           THEN Goto(t, "ss_cas") /\ UNCHANGED loc
           ELSE IF stamp + one_lap = loc[t] + 1
           THEN Goto(t, "ss_head") /\ UNCHANGED loc
           ELSE Goto(t, "ss_load") /\ loc' = [loc EXCEPT ![t] = 0]
    /\ UNCHANGED <<kind, deadline, msg, token, backoff, cxvars, avars, cvars, hvars>>

\* a new position that never moves to the next lap
Array_new_position_same_lap(p) == p + 1

\* the position after p: the next index, or index 0 of the next lap
Array_new_position(p) ==
    IF (p % mark_bit) + 1 < cap THEN p + 1 ELSE (p - (p % one_lap)) + one_lap

\* start_send with a plain store of tail in the place of compare_exchange
Array_start_send_store(t) ==
    /\ pc[t] = "ss_cas"
    /\ tail' = Array_new_position(loc[t])
    /\ token' = [token EXCEPT ![t].array = [slot |-> <<loc[t] % mark_bit>>, stamp |-> loc[t] + 1]]
    /\ tail_log' = Append(tail_log, [p |-> loc[t], m |-> msg[t]])
    /\ Goto(t, "write")
    /\ Call_decided(t)
    /\ loc' = [loc EXCEPT ![t] = 0]
    /\ UNCHANGED <<msg, cxvars, head, buffer,
                   senders, receivers, cvars, started, sent_ok, sent_err, recvd, saw_disc>>

\* start_send: compare_exchange of tail; on success the token is prepared
Array_start_send_cas(t) ==
    /\ pc[t] = "ss_cas"
    /\ IF tail = loc[t]
       THEN /\ tail' = Array_new_position(loc[t])
            /\ token' = [token EXCEPT ![t].array = [slot |-> <<loc[t] % mark_bit>>, stamp |-> loc[t] + 1]]
            /\ tail_log' = Append(tail_log, [p |-> loc[t], m |-> msg[t]])
            /\ Goto(t, "write")
            /\ Call_decided(t)
       ELSE /\ Goto(t, "ss_load")
            /\ UNCHANGED <<tail, token, tail_log, kind, deadline, backoff>>
    /\ loc' = [loc EXCEPT ![t] = 0]
    /\ UNCHANGED <<msg, cxvars, head, buffer,
                   senders, receivers, cvars, started, sent_ok, sent_err, recvd, saw_disc>>

\* start_send that takes the channel for full as soon as the slot's stamp lags
\* one lap, without comparing head with its tail value
Array_start_send_full_unchecked(t) ==
    /\ pc[t] = "ss_head"
    /\ IF kind[t] = "try_send"
       THEN /\ Return(t)
            /\ Sent_err(msg[t], "Full")
       ELSE IF backoff[t] > SPIN_LIMIT
            THEN \/ /\ deadline[t]
                    /\ Return(t)
                    /\ Sent_err(msg[t], "Timeout")
                 \/ /\ Goto(t, "register")
                    /\ loc' = [loc EXCEPT ![t] = 0]
                    /\ UNCHANGED <<kind, deadline, msg, token, backoff, hvars>>
            ELSE /\ Goto(t, "ss_load")
                 /\ backoff' = [backoff EXCEPT ![t] = @ + 1]
                 /\ loc' = [loc EXCEPT ![t] = 0]
                 /\ UNCHANGED <<kind, deadline, msg, token, hvars>>
    /\ UNCHANGED <<cxvars, avars, cvars>>

\* a send that goes on to block as soon as start_send has returned false,
\* without spinning on its Backoff first
Array_start_send_full_hasty(t) ==
    /\ pc[t] = "ss_head"
    /\ IF head + one_lap = loc[t]
       THEN IF kind[t] = "try_send"
            THEN /\ Return(t)
                 /\ Sent_err(msg[t], "Full")
            ELSE \/ /\ deadline[t]
                    /\ Return(t)
                    /\ Sent_err(msg[t], "Timeout")
                 \/ /\ Goto(t, "register")
                    /\ loc' = [loc EXCEPT ![t] = 0]
                    /\ UNCHANGED <<kind, deadline, msg, token, backoff, hvars>>
       ELSE /\ Goto(t, "ss_load")
            /\ loc' = [loc EXCEPT ![t] = 0]
            /\ UNCHANGED <<kind, deadline, msg, token, backoff, hvars>>
    /\ UNCHANGED <<cxvars, avars, cvars>>

\* start_send: the slot lags one lap; load head.  If head lags too the channel
\* is full and start_send returns false: try_send returns Full(msg); send
\* spins on its Backoff and, once that is completed, checks the deadline and
\* goes on to block.
Array_start_send_full(t) ==
    /\ pc[t] = "ss_head"
    /\ IF head + one_lap = loc[t]
       THEN IF kind[t] = "try_send"
            THEN /\ Return(t)
                 /\ Sent_err(msg[t], "Full")
            ELSE IF backoff[t] > SPIN_LIMIT
                 THEN \/ /\ deadline[t]
                         /\ Return(t)
                         /\ Sent_err(msg[t], "Timeout")
                      \/ /\ Goto(t, "register")
                         /\ loc' = [loc EXCEPT ![t] = 0]
                         /\ UNCHANGED <<kind, deadline, msg, token, backoff, hvars>>
                 ELSE /\ Goto(t, "ss_load")
                      /\ backoff' = [backoff EXCEPT ![t] = @ + 1]
                      /\ loc' = [loc EXCEPT ![t] = 0]
                      /\ UNCHANGED <<kind, deadline, msg, token, hvars>>
       ELSE /\ Goto(t, "ss_load")
            /\ loc' = [loc EXCEPT ![t] = 0]
            /\ UNCHANGED <<kind, deadline, msg, token, backoff, hvars>>
    /\ UNCHANGED <<cxvars, avars, cvars>>

\* send: Context::with, Operation::hook, senders.register
Array_send_register(t) ==
    /\ pc[t] = "register"
    /\ SetCx(Context_reset(CxNow, t))
    /\ senders' = SyncWaker_register(senders, Operation_hook(t), t)
    /\ Goto(t, "chk_tail")
    /\ UNCHANGED <<tvars, head, tail, buffer, receivers, cvars, hvars>>

\* send: is_full() loads tail ...
Array_send_is_full_tail(t) ==
    /\ pc[t] = "chk_tail"
    /\ loc' = [loc EXCEPT ![t] = tail]
    /\ Goto(t, "chk_head")
    /\ UNCHANGED <<kind, deadline, msg, token, backoff, cxvars, avars, cvars, hvars>>

\* send's readiness re-check left out: the channel is taken to be still full
Array_send_is_full_unchecked(t) ==
    /\ pc[t] = "chk_head"
    /\ Goto(t, "chk_disc")
    /\ loc' = [loc EXCEPT ![t] = 0]
    /\ UNCHANGED <<kind, deadline, msg, token, backoff, cxvars, avars, cvars, hvars>>

\* ... then head: not full => try_select(Aborted); full => is_disconnected()
Array_send_is_full_head(t) ==
    /\ pc[t] = "chk_head"
    /\ IF head + one_lap = ClearBit(loc[t], mark_bit)
       THEN Goto(t, "chk_disc")
       ELSE Goto(t, "abort")
    /\ loc' = [loc EXCEPT ![t] = 0]
    /\ UNCHANGED <<kind, deadline, msg, token, backoff, cxvars, avars, cvars, hvars>>

\* is_disconnected() of the readiness re-check (in send and in recv)
Array_is_disconnected(t) ==
    /\ pc[t] = "chk_disc"
    /\ IF TestBit(tail, mark_bit) THEN Goto(t, "abort") ELSE Goto(t, "wait")
    /\ UNCHANGED <<tvars, cxvars, avars, cvars, hvars>>

\* send: the match on wait_until's value: Aborted | Disconnected unregister;
\* then the outer loop runs again with a new Backoff
Array_send_selected(t, sel) ==
    /\ IF sel = Aborted \/ sel = Disconnected
       THEN /\ Goto(t, "unregister")
            /\ select' = [select EXCEPT ![t] = sel]
            /\ UNCHANGED <<cx_packet, park_token>>
       ELSE /\ Goto(t, "ss_load")
            /\ SetCx(Context_leave(CxNow, t))
    /\ backoff' = [backoff EXCEPT ![t] = 0]
    /\ UNCHANGED <<kind, deadline, msg, token, loc>>

Array_send_wait(t) ==
    /\ \E sel \in Context_wait_until(t) :
          IF sel = Waiting THEN Context_wait_park(t)
          ELSE Array_send_selected(t, sel)
    /\ UNCHANGED <<avars, cvars, hvars>>

\* send: senders.unregister(oper).unwrap()
Array_send_unregister(t) ==
    /\ pc[t] = "unregister"
    /\ IF Waker_find(senders.inner, Operation_hook(t)) = 0
       THEN /\ Goto(t, "panicked")
            /\ UNCHANGED senders
       ELSE /\ senders' = SyncWaker_unregister(senders, Operation_hook(t))
            /\ Goto(t, "ss_load")
    /\ SetCx(Context_leave(CxNow, t))
    /\ UNCHANGED <<tvars, head, tail, buffer, receivers, cvars, hvars>>

\* write: store the message and release-store the prepared stamp
Array_write(t) ==
    /\ pc[t] = "write"
    /\ buffer' = [buffer EXCEPT ![token[t].array.slot[1]] = [stamp |-> token[t].array.stamp, msg |-> msg[t]]]
    /\ token' = [token EXCEPT ![t] = NullToken]
    /\ Goto(t, "w_notify")
    /\ UNCHANGED <<kind, deadline, msg, loc, backoff, cxvars, head, tail, senders,
                   receivers, cvars, hvars>>

\* write: receivers.notify() loads is_empty; if set, write returns Ok
Array_write_notify(t) ==
    /\ pc[t] = "w_notify"
    /\ IF receivers.is_empty
       THEN /\ Return(t)
            /\ Sent_ok(msg[t])
       ELSE /\ Goto(t, "w_notify_locked")
            /\ UNCHANGED <<tvars, hvars>>
    /\ UNCHANGED <<cxvars, avars, cvars>>

\* write: the locked part of receivers.notify(), then Ok
Array_write_notify_locked(t) ==
    /\ pc[t] = "w_notify_locked"
    /\ receivers' = SyncWaker_notify(receivers, t)
    /\ SetCx(IF receivers.is_empty THEN CxNow ELSE Cx_after_try_select(receivers.inner, t))
    /\ Return(t)
    /\ Sent_ok(msg[t])
    /\ UNCHANGED <<head, tail, buffer, senders, cvars>>

\* a recv / try_recv that looks at the mark of tail before anything else
Array_recv_eager(t, k, d) ==
    /\ pc[t] = "idle"
    /\ saw_disc[t] < MaxDisc
    /\ IF TestBit(tail, mark_bit)
       THEN /\ Recv_disconnected(t)
            /\ UNCHANGED <<pc, tvars>>
       ELSE /\ Goto(t, "sr_stamp")
            /\ kind' = [kind EXCEPT ![t] = k]
            /\ deadline' = [deadline EXCEPT ![t] = d]
            /\ loc' = [loc EXCEPT ![t] = head]
            /\ UNCHANGED <<msg, token, backoff, hvars>>
    /\ UNCHANGED <<cxvars, avars, cvars>>

(* ----- array.rs: receive side ----- *)
\* recv(deadline) / try_recv() is called; start_recv loads head
Array_recv(t, k, d) ==
    /\ pc[t] = "idle"
    /\ saw_disc[t] < MaxDisc
    /\ Goto(t, "sr_stamp")
    /\ kind' = [kind EXCEPT ![t] = k]
    /\ deadline' = [deadline EXCEPT ![t] = d]
    /\ loc' = [loc EXCEPT ![t] = head]
    /\ UNCHANGED <<msg, token, backoff, cxvars, avars, cvars, hvars>>

\* start_recv: reload head (after a failed CAS or a spin)
Array_start_recv_load(t) ==
    /\ pc[t] = "sr_load"
    /\ loc' = [loc EXCEPT ![t] = head]
    /\ Goto(t, "sr_stamp")
    /\ UNCHANGED <<kind, deadline, msg, token, backoff, cxvars, avars, cvars, hvars>>

\* start_recv without the comparison of the slot's stamp with head: every
\* position is taken for a written slot
Array_start_recv_stamp_unchecked(t) ==
    /\ pc[t] = "sr_stamp"
    /\ Goto(t, "sr_cas")
    /\ UNCHANGED <<tvars, cxvars, avars, cvars, hvars>>

\* start_recv: load the slot's stamp and pick the branch
Array_start_recv_stamp(t) ==
    /\ pc[t] = "sr_stamp"
    /\ LET index == loc[t] % mark_bit
           stamp == buffer[index].stamp
       IN  IF loc[t] + 1 = stamp
           THEN Goto(t, "sr_cas") /\ UNCHANGED loc
           ELSE IF stamp = loc[t]
           THEN Goto(t, "sr_tail") /\ UNCHANGED loc
           ELSE Goto(t, "sr_load") /\ loc' = [loc EXCEPT ![t] = 0]
    /\ UNCHANGED <<kind, deadline, msg, token, backoff, cxvars, avars, cvars, hvars>>

\* start_recv with a plain store of head in the place of compare_exchange
Array_start_recv_store(t) ==
    /\ pc[t] = "sr_cas"
    /\ head' = Array_new_position(loc[t])
    /\ token' = [token EXCEPT ![t].array = [slot |-> <<loc[t] % mark_bit>>, stamp |-> loc[t] + one_lap]]
    /\ Goto(t, "read")
    /\ Call_decided(t)
    /\ loc' = [loc EXCEPT ![t] = 0]
    /\ UNCHANGED <<msg, cxvars, tail, buffer,
                   senders, receivers, cvars, hvars>>

\* start_recv with the deadline looked at after the compare_exchange of head: a
\* recv with a deadline gives up with the slot reserved
Array_start_recv_cas_timed(t) ==
    /\ pc[t] = "sr_cas"
    /\ IF head = loc[t]
       THEN /\ head' = Array_new_position(loc[t])
            /\ IF deadline[t]
               THEN Return(t)
               ELSE /\ token' = [token EXCEPT ![t].array =
                                    [slot |-> <<loc[t] % mark_bit>>, stamp |-> loc[t] + one_lap]]
                    /\ Goto(t, "read")
                    /\ Call_decided(t)
                    /\ loc' = [loc EXCEPT ![t] = 0]
                    /\ UNCHANGED msg
       ELSE /\ Goto(t, "sr_load")
            /\ loc' = [loc EXCEPT ![t] = 0]
            /\ UNCHANGED <<head, token, kind, deadline, backoff, msg>>
    /\ UNCHANGED <<cxvars, tail, buffer, senders, receivers, cvars, hvars>>

\* start_recv: compare_exchange of head; on success the token is prepared
Array_start_recv_cas(t) ==
    /\ pc[t] = "sr_cas"
    /\ IF head = loc[t]
       THEN /\ head' = Array_new_position(loc[t])
            /\ token' = [token EXCEPT ![t].array = [slot |-> <<loc[t] % mark_bit>>, stamp |-> loc[t] + one_lap]]
            /\ Goto(t, "read")
            /\ Call_decided(t)
       ELSE /\ Goto(t, "sr_load")
            /\ UNCHANGED <<head, token, kind, deadline, backoff>>
    /\ loc' = [loc EXCEPT ![t] = 0]
    /\ UNCHANGED <<msg, cxvars, tail, buffer,
                   senders, receivers, cvars, hvars>>

\* start_recv's empty branch followed by the blocking path whatever the call
Array_start_recv_empty_blocking(t) ==
    /\ pc[t] = "sr_tail"
    /\ Goto(t, "register")
    /\ loc' = [loc EXCEPT ![t] = 0]
    /\ UNCHANGED <<kind, deadline, msg, token, backoff, hvars, cxvars, avars, cvars>>

\* start_recv: the slot is empty at this position; load tail.  Empty and marked:
\* null token, with which read returns Err.  Empty and unmarked: start_recv
\* returns false: try_recv returns Empty; recv checks the deadline and goes on
\* to block.
Array_start_recv_empty(t) ==
    /\ pc[t] = "sr_tail"
    /\ IF ClearBit(tail, mark_bit) = loc[t]
       THEN IF TestBit(tail, mark_bit)
            THEN /\ Return(t)
                 /\ Recv_disconnected(t)
            ELSE IF kind[t] = "try_recv"
                 THEN /\ Return(t)
                      /\ UNCHANGED hvars
                 ELSE \/ /\ deadline[t]
                         /\ Return(t)
                         /\ UNCHANGED hvars
                      \/ /\ Goto(t, "register")
                         /\ loc' = [loc EXCEPT ![t] = 0]
                         /\ UNCHANGED <<kind, deadline, msg, token, backoff, hvars>>
       ELSE /\ Goto(t, "sr_load")
            /\ loc' = [loc EXCEPT ![t] = 0]
            /\ UNCHANGED <<kind, deadline, msg, token, backoff, hvars>>
    /\ UNCHANGED <<cxvars, avars, cvars>>

\* recv: Context::with, Operation::hook, receivers.register
Array_recv_register(t) ==
    /\ pc[t] = "register"
    /\ SetCx(Context_reset(CxNow, t))
    /\ receivers' = SyncWaker_register(receivers, Operation_hook(t), t)
    /\ Goto(t, "chk_head")
    /\ UNCHANGED <<tvars, head, tail, buffer, senders, cvars, hvars>>

\* recv: is_empty() loads head ...
Array_recv_is_empty_head(t) ==
    /\ pc[t] = "chk_head"
    /\ loc' = [loc EXCEPT ![t] = head]
    /\ Goto(t, "chk_tail")
    /\ UNCHANGED <<kind, deadline, msg, token, backoff, cxvars, avars, cvars, hvars>>

\* ... then tail: not empty => try_select(Aborted); empty => is_disconnected()
Array_recv_is_empty_tail(t) ==
    /\ pc[t] = "chk_tail"
    /\ IF ClearBit(tail, mark_bit) = loc[t]
       THEN Goto(t, "chk_disc")
       ELSE Goto(t, "abort")
    /\ loc' = [loc EXCEPT ![t] = 0]
    /\ UNCHANGED <<kind, deadline, msg, token, backoff, cxvars, avars, cvars, hvars>>

\* recv: the match on wait_until's value; then the loop runs again
Array_recv_selected(t, sel) ==
    /\ IF sel = Aborted \/ sel = Disconnected
       THEN /\ Goto(t, "unregister")
            /\ select' = [select EXCEPT ![t] = sel]
            /\ UNCHANGED <<cx_packet, park_token>>
       ELSE /\ Goto(t, "sr_load")
            /\ SetCx(Context_leave(CxNow, t))
    /\ UNCHANGED tvars

Array_recv_wait(t) ==
    /\ \E sel \in Context_wait_until(t) :
          IF sel = Waiting THEN Context_wait_park(t)
          ELSE Array_recv_selected(t, sel)
    /\ UNCHANGED <<avars, cvars, hvars>>

\* recv: receivers.unregister(oper).unwrap()
Array_recv_unregister(t) ==
    /\ pc[t] = "unregister"
    /\ IF Waker_find(receivers.inner, Operation_hook(t)) = 0
       THEN /\ Goto(t, "panicked")
            /\ UNCHANGED receivers
       ELSE /\ receivers' = SyncWaker_unregister(receivers, Operation_hook(t))
            /\ Goto(t, "sr_load")
    /\ SetCx(Context_leave(CxNow, t))
    /\ UNCHANGED <<tvars, head, tail, buffer, senders, cvars, hvars>>

\* a read that takes the message and leaves the slot's stamp as it found it
Array_read_unstamped(t) ==
    /\ pc[t] = "read"
    /\ msg' = [msg EXCEPT ![t] = buffer[token[t].array.slot[1]].msg]
    /\ loc' = [loc EXCEPT ![t] = token[t].array.stamp - one_lap]
    /\ token' = [token EXCEPT ![t] = NullToken]
    /\ Goto(t, "r_notify")
    /\ UNCHANGED <<kind, deadline, backoff, cxvars, head, tail, buffer,
                   senders, receivers, cvars, hvars>>

\* read: take the message out of the slot and release-store the reset stamp
\* (loc keeps the head position the message was taken at)
Array_read(t) ==
    /\ pc[t] = "read"
    /\ msg' = [msg EXCEPT ![t] = buffer[token[t].array.slot[1]].msg]
    /\ buffer' = [buffer EXCEPT ![token[t].array.slot[1]].stamp = token[t].array.stamp]
    /\ loc' = [loc EXCEPT ![t] = token[t].array.stamp - one_lap]
    /\ token' = [token EXCEPT ![t] = NullToken]
    /\ Goto(t, "r_notify")
    /\ UNCHANGED <<kind, deadline, backoff, cxvars, head, tail,
                   senders, receivers, cvars, hvars>>

\* read: senders.notify() loads is_empty; if set, read returns Ok(msg)
Array_read_notify(t) ==
    /\ pc[t] = "r_notify"
    /\ IF senders.is_empty
       THEN /\ Return(t)
            /\ Received(t, msg[t], loc[t])
       ELSE /\ Goto(t, "r_notify_locked")
            /\ UNCHANGED <<tvars, hvars>>
    /\ UNCHANGED <<cxvars, avars, cvars>>

\* read: the locked part of senders.notify(), then Ok(msg)
Array_read_notify_locked(t) ==
    /\ pc[t] = "r_notify_locked"
    /\ senders' = SyncWaker_notify(senders, t)
    /\ SetCx(IF senders.is_empty THEN CxNow ELSE Cx_after_try_select(senders.inner, t))
    /\ Return(t)
    /\ Received(t, msg[t], loc[t])
    /\ UNCHANGED <<head, tail, buffer, receivers, cvars>>

(* ----- array.rs: len ----- *)
\* a len that takes equal indices for an empty channel
Array_len_value_indices(tl, hd) ==
    LET hix == hd % mark_bit
        tix == tl % mark_bit
    IN  IF hix < tix THEN tix - hix
        ELSE IF hix > tix THEN cap - hix + tix
        ELSE 0

\* the value len computes from a tail and a head
Array_len_value(tl, hd) ==
    LET hix == hd % mark_bit
        tix == tl % mark_bit
    IN  IF hix < tix THEN tix - hix
        ELSE IF hix > tix THEN cap - hix + tix
        ELSE IF ClearBit(tl, mark_bit) = hd THEN 0
        ELSE cap

\* len is called (from either endpoint): load tail
Array_len(t) ==
    /\ pc[t] = "idle"
    /\ loc' = [loc EXCEPT ![t] = tail]
    /\ Goto(t, "len_head")
    /\ UNCHANGED <<kind, deadline, msg, token, backoff, cxvars, avars, cvars, hvars>>

\* len: load tail again at the top of the loop
Array_len_tail(t) ==
    /\ pc[t] = "len_tail"
    /\ loc' = [loc EXCEPT ![t] = tail]
    /\ Goto(t, "len_head")
    /\ UNCHANGED <<kind, deadline, msg, token, backoff, cxvars, avars, cvars, hvars>>

\* len: load head
Array_len_head(t) ==
    /\ pc[t] = "len_head"
    /\ loc2' = [loc2 EXCEPT ![t] = head]
    /\ Goto(t, "len_check")
    /\ UNCHANGED <<kind, deadline, msg, token, loc, backoff, cxvars, avars, cvars, hvars>>

\* len: load tail again; unchanged: return the value, changed: start over
Array_len_check(t) ==
    /\ pc[t] = "len_check"
    /\ IF tail = loc[t]
       THEN Return(t)
       ELSE /\ Goto(t, "len_tail")
            /\ loc' = [loc EXCEPT ![t] = 0]
            /\ loc2' = [loc2 EXCEPT ![t] = 0]
            /\ UNCHANGED <<kind, deadline, msg, token, backoff>>
    /\ UNCHANGED <<cxvars, avars, cvars, hvars>>

(* ----- counter.rs: release; mod.rs: Drop for Sender / Receiver ----- *)
\* release: fetch_sub on the side's count; the last endpoint disconnects
Counter_release(t) ==
    /\ pc[t] = "idle"
    /\ IF t \in Senders
       THEN /\ counter' = [counter EXCEPT !.senders = @ - 1]
            /\ Goto(t, IF counter.senders = 1 THEN "disconnect" ELSE "gone")
       ELSE /\ counter' = [counter EXCEPT !.receivers = @ - 1]
            /\ Goto(t, IF counter.receivers = 1 THEN "disconnect" ELSE "gone")
    /\ UNCHANGED freed

\* a release whose first destroy.swap(true) frees the allocation already
Counter_destroy_eager(t) ==
    /\ pc[t] = "destroy"
    /\ counter' = [counter EXCEPT !.destroy = TRUE]
    /\ freed' = freed + 1
    /\ Goto(t, "gone")

\* release: destroy.swap(true); the second swap frees the allocation
Counter_destroy(t) ==
    /\ pc[t] = "destroy"
    /\ counter' = [counter EXCEPT !.destroy = TRUE]
    /\ freed' = IF counter.destroy THEN freed + 1 ELSE freed
    /\ Goto(t, "gone")

(* ----- array.rs: disconnect ----- *)
Array_release(t) ==
    /\ Counter_release(t)
    /\ UNCHANGED <<tvars, cxvars, avars, hvars>>

Array_destroy(t) ==
    /\ Counter_destroy(t)
    /\ UNCHANGED <<tvars, cxvars, avars, hvars>>

\* a disconnect that does not look at the tail value fetch_or returned: every
\* call takes itself for the first one
Array_disconnect_unconditional(t) ==
    /\ pc[t] = "disconnect"
    /\ tail' = SetBit(tail, mark_bit)
    /\ Goto(t, "disc_senders")
    /\ UNCHANGED <<tvars, cxvars, head, buffer, senders, receivers, cvars, hvars>>

\* disconnect: fetch_or(mark_bit) on tail; only the first call wakes
Array_disconnect(t) ==
    /\ pc[t] = "disconnect"
    /\ tail' = SetBit(tail, mark_bit)
    /\ Goto(t, IF TestBit(tail, mark_bit) THEN "destroy" ELSE "disc_senders")
    /\ UNCHANGED <<tvars, cxvars, head, buffer, senders, receivers, cvars, hvars>>

\* disconnect: self.senders.disconnect()
Array_disconnect_senders(t) ==
    /\ pc[t] = "disc_senders"
    /\ SetCx(Cx_after_disconnect(Waker_disconnect_woken(senders.inner)))
    /\ senders' = SyncWaker_disconnect(senders)
    /\ Goto(t, "disc_receivers")
    /\ UNCHANGED <<tvars, head, tail, buffer, receivers, cvars, hvars>>

\* disconnect: self.receivers.disconnect()
Array_disconnect_receivers(t) ==
    /\ pc[t] = "disc_receivers"
    /\ SetCx(Cx_after_disconnect(Waker_disconnect_woken(receivers.inner)))
    /\ receivers' = SyncWaker_disconnect(receivers)
    /\ Goto(t, "destroy")
    /\ UNCHANGED <<tvars, head, tail, buffer, senders, cvars, hvars>>

Array_park(t) ==
    /\ Context_park(t)
    /\ UNCHANGED <<avars, cvars, hvars>>

(* ----- the threads: which endpoints exist ----- *)
\* Each endpoint is held by one thread; at most MaxThreads endpoints are
\* created ("absent": the clone was never made). The endpoints of a side are
\* interchangeable, so the ones created are the lowest-numbered of their side.
AllConfigs ==
    {c \in [Threads -> {"idle", "absent"}] :
        /\ \E t \in Senders : c[t] = "idle"
        /\ \E t \in Receivers : c[t] = "idle"
        /\ Cardinality({t \in Threads : c[t] = "idle"}) <= MaxThreads
        /\ \A t, u \in Senders : (t < u /\ c[u] = "idle") => c[t] = "idle"
        /\ \A t, u \in Receivers : (t < u /\ c[u] = "idle") => c[t] = "idle"}

\* the configurations of at most MaxReceivers receivers
Configs ==
    {c \in AllConfigs : Cardinality({t \in Receivers : c[t] = "idle"}) <= MaxReceivers}

\* the endpoints of one of the configurations C, none of them in a call yet
InitEndpoints(C) ==
    /\ pc \in C
    /\ kind = [t \in Threads |-> "none"]
    /\ deadline = [t \in Threads |-> FALSE]
    /\ msg = [t \in Threads |-> NoMsg]
    /\ token = [t \in Threads |-> NullToken]
    /\ loc = [t \in Threads |-> 0]
    /\ loc2 = [t \in Threads |-> 0]
    /\ backoff = [t \in Threads |-> 0]
    /\ spin_hints = [t \in Threads |-> 0]
    /\ yields = [t \in Threads |-> 0]
    /\ select = [t \in Threads |-> Waiting]
    /\ cx_packet = [t \in Threads |-> Null]
    /\ park_token = [t \in Threads |-> FALSE]
    /\ counter = [senders |-> Cardinality({t \in Senders : pc[t] = "idle"}),
                  receivers |-> Cardinality({t \in Receivers : pc[t] = "idle"}),
                  destroy |-> FALSE]
    /\ freed = 0
    /\ started = 0
    /\ sent_ok = {}
    /\ sent_err = {}
    /\ recvd = [t \in Receivers |-> << >>]
    /\ saw_disc = [t \in Receivers |-> 0]
    /\ tail_log = << >>

InitThreads == InitEndpoints(Configs)

\* Channel::with_capacity(c)
Array_with_capacity(c) ==
    /\ flavor = "array"
    /\ block = [t \in Threads |-> Null]
    /\ next_block = [t \in Threads |-> Null]
    /\ blocks = << >>
    /\ inner = Null
    /\ packet = [t \in Threads |-> Null]
    /\ head = 0
    /\ tail = 0
    /\ buffer = [i \in 0..(c - 1) |-> [stamp |-> i, msg |-> NoMsg]]
    /\ senders = SyncWaker_new
    /\ receivers = SyncWaker_new

InitArray == InitThreads /\ Array_with_capacity(Cap)

\* a thread starts a call on its endpoint, or drops the endpoint
Array_call(t) ==
    /\ flavor = "array"
    /\ UNCHANGED <<nonarray, loc2>>
    /\ \/ /\ t \in Senders
          /\ \/ \E d \in BOOLEAN : Array_send(t, "send", d)
             \/ Array_send(t, "try_send", FALSE)
       \/ /\ t \in Receivers
          /\ \/ \E d \in BOOLEAN : Array_recv(t, "recv", d)
             \/ Array_recv(t, "try_recv", FALSE)
       \/ Array_release(t)

\* a thread takes the next step of the call (or of the drop) it is in
Array_step(t) ==
    /\ flavor = "array"
    /\ UNCHANGED <<nonarray, loc2>>
    /\ \/ /\ t \in Senders
          /\ \/ Array_start_send_load(t)
             \/ Array_start_send_stamp(t)
             \/ Array_start_send_cas(t)
             \/ Array_start_send_full(t)
             \/ Array_send_register(t)
             \/ Array_send_is_full_tail(t)
             \/ Array_send_is_full_head(t)
             \/ Array_send_wait(t)
             \/ Array_send_unregister(t)
             \/ Array_write(t)
             \/ Array_write_notify(t)
             \/ Array_write_notify_locked(t)
       \/ /\ t \in Receivers
          /\ \/ Array_start_recv_load(t)
             \/ Array_start_recv_stamp(t)
             \/ Array_start_recv_cas(t)
             \/ Array_start_recv_empty(t)
             \/ Array_recv_register(t)
             \/ Array_recv_is_empty_head(t)
             \/ Array_recv_is_empty_tail(t)
             \/ Array_recv_wait(t)
             \/ Array_recv_unregister(t)
             \/ Array_read(t)
             \/ Array_read_notify(t)
             \/ Array_read_notify_locked(t)
       \/ Array_is_disconnected(t)
       \/ Array_park(t)
       \/ Array_disconnect(t)
       \/ Array_disconnect_senders(t)
       \/ Array_disconnect_receivers(t)
       \/ Array_destroy(t)

\* the call of len and its steps
Array_len_step(t) ==
    /\ flavor = "array"
    /\ UNCHANGED nonarray
    /\ \/ Array_len(t) /\ UNCHANGED loc2
       \/ Array_len_tail(t) /\ UNCHANGED loc2
       \/ Array_len_head(t)
       \/ Array_len_check(t)

ArrayNext == \E t \in Threads : Array_call(t) \/ Array_step(t)

\* an array channel on which len is called as well
ArrayLenNext == \E t \in Threads : Array_call(t) \/ Array_step(t) \/ Array_len_step(t)

(* ------------------------------- list.rs ------------------------------ *)
WRITE == 1
READ == 2
DESTROY == 4
LAP == 32
BLOCK_CAP == LAP - 1
SHIFT == 1
MARK_BIT == 1

\* x >> SHIFT
Shr(x) == x \div (2 ^ SHIFT)
\* (x >> SHIFT) % LAP
Offset(x) == Shr(x) % LAP

nonlist == <<flavor, buffer, senders, inner, packet, backoff, bvars>>

\* Block::new(): zeroed
Block_new ==
    [next |-> Null,
     slots |-> [i \in 0..(BLOCK_CAP - 1) |-> [state |-> 0, msg |-> NoMsg]],
     freed |-> 0]

\* Box::new(Block::new()) on heap h: the new heap and the pointer
Heap_alloc(h) == [heap |-> Append(h, Block_new), ptr |-> <<Len(h) + 1>>]
\* drop(Box::from_raw(b)); dropping None does nothing.  freed counts the
\* times the block was deallocated
Heap_free(h, b) == IF b = Null THEN h ELSE [h EXCEPT ![b[1]].freed = @ + 1]

SetLocals(t, l, b, nb) ==
    /\ loc' = [loc EXCEPT ![t] = l]
    /\ block' = [block EXCEPT ![t] = b]
    /\ next_block' = [next_block EXCEPT ![t] = nb]

\* a call returns to its caller
List_return(t) == Return(t) /\ block' = [block EXCEPT ![t] = Null]

(* ----- list.rs: send side ----- *)
\* send(msg, _) is called (try_send is send(msg, None)); start_send loads
\* tail.index; marked: null token, with which write returns Err(msg)
List_send(t) ==
    /\ pc[t] = "idle"
    /\ started < MaxMsgs
    /\ started' = started + 1
    /\ IF TestBit(tail.index, MARK_BIT)
       THEN /\ sent_err' = sent_err \cup {[m |-> <<t, started + 1>>, tag |-> "Disconnected"]}
            /\ UNCHANGED <<pc, msg, loc>>
       ELSE /\ Goto(t, "ls_block")
            /\ loc' = [loc EXCEPT ![t] = tail.index]
            /\ msg' = [msg EXCEPT ![t] = <<t, started + 1>>]
            /\ UNCHANGED sent_err
    /\ UNCHANGED <<kind, deadline, token, block, next_block, cxvars, head, tail,
                   receivers, blocks, cvars, sent_ok, recvd, saw_disc, tail_log>>

\* start_send reloading tail.index without looking at its mark
List_start_send_load_unmarked(t) ==
    /\ pc[t] = "ls_load"
    /\ Goto(t, "ls_block")
    /\ SetLocals(t, tail.index, Null, next_block[t])
    /\ UNCHANGED <<kind, deadline, msg, token, blocks, hvars, cxvars, head, tail, receivers, cvars>>

\* start_send: reload tail.index (after a failed CAS or a spin); marked:
\* return true with a null token, dropping an unused next_block
List_start_send_load(t) ==
    /\ pc[t] = "ls_load"
    /\ IF TestBit(tail.index, MARK_BIT)
       THEN /\ blocks' = Heap_free(blocks, next_block[t])
            /\ next_block' = [next_block EXCEPT ![t] = Null]
            /\ List_return(t)
            /\ Sent_err(msg[t], "Disconnected")
       ELSE /\ Goto(t, "ls_block")
            /\ SetLocals(t, tail.index, Null, next_block[t])
            /\ UNCHANGED <<kind, deadline, msg, token, blocks, hvars>>
    /\ UNCHANGED <<cxvars, head, tail, receivers, cvars>>

\* start_send: load tail.block; at the end of the block spin; allocate
\* next_block ahead of the last slot
List_start_send_block(t) ==
    /\ pc[t] = "ls_block"
    /\ IF Offset(loc[t]) = BLOCK_CAP
       THEN /\ Goto(t, "ls_load")
            /\ SetLocals(t, 0, Null, next_block[t])
            /\ UNCHANGED blocks
       ELSE /\ IF Offset(loc[t]) + 1 = BLOCK_CAP /\ next_block[t] = Null
               THEN /\ blocks' = Heap_alloc(blocks).heap
                    /\ SetLocals(t, loc[t], tail.block, Heap_alloc(blocks).ptr)
               ELSE /\ UNCHANGED blocks
                    /\ SetLocals(t, loc[t], tail.block, next_block[t])
            /\ Goto(t, IF tail.block = Null THEN "ls_cas_block" ELSE "ls_cas")
    /\ UNCHANGED <<kind, deadline, msg, token, cxvars, head, tail, receivers, cvars, hvars>>

\* start_send: the first block: allocate it and compare_exchange tail.block
\* from null; on failure keep the allocation as next_block and start over
List_start_send_cas_block(t) ==
    /\ pc[t] = "ls_cas_block"
    /\ LET a == Heap_alloc(blocks) IN
       IF tail.block = Null
       THEN /\ tail' = [tail EXCEPT !.block = a.ptr]
            /\ blocks' = a.heap
            /\ SetLocals(t, loc[t], a.ptr, next_block[t])
            /\ Goto(t, "ls_head_block")
       ELSE /\ blocks' = Heap_free(a.heap, next_block[t])
            /\ SetLocals(t, 0, Null, a.ptr)
            /\ Goto(t, "ls_load")
            /\ UNCHANGED tail
    /\ UNCHANGED <<kind, deadline, msg, token, cxvars, head, receivers, cvars, hvars>>

\* start_send: head.block.store(new)
List_start_send_head_block(t) ==
    /\ pc[t] = "ls_head_block"
    /\ head' = [head EXCEPT !.block = block[t]]
    /\ Goto(t, "ls_cas")
    /\ UNCHANGED <<tvars, block, next_block, cxvars, tail, receivers, blocks, cvars, hvars>>

\* start_send with a plain store of tail.index in the place of
\* compare_exchange
List_start_send_store(t) ==
    /\ pc[t] = "ls_cas"
    /\ tail' = [tail EXCEPT !.index = loc[t] + 2 ^ SHIFT]
    /\ tail_log' = Append(tail_log, [p |-> Shr(loc[t]), m |-> msg[t]])
    /\ IF Offset(loc[t]) + 1 = BLOCK_CAP
       THEN /\ Goto(t, "ls_inst_block")
            /\ UNCHANGED <<token, loc, block, next_block, blocks>>
       ELSE /\ Goto(t, "write")
            /\ token' = [token EXCEPT ![t].list = [block |-> block[t], offset |-> Offset(loc[t])]]
            /\ blocks' = Heap_free(blocks, next_block[t])
            /\ SetLocals(t, 0, Null, Null)
    /\ UNCHANGED <<kind, deadline, msg, cxvars, head, receivers, cvars,
                   started, sent_ok, sent_err, recvd, saw_disc>>

\* start_send: compare_exchange of tail.index.  On success: at the last slot
\* go on to install next_block, else prepare the token and return true
\* (dropping an unused next_block)
List_start_send_cas(t) ==
    /\ pc[t] = "ls_cas"
    /\ IF tail.index = loc[t]
       THEN /\ tail' = [tail EXCEPT !.index = loc[t] + 2 ^ SHIFT]
            /\ tail_log' = Append(tail_log, [p |-> Shr(loc[t]), m |-> msg[t]])
            /\ IF Offset(loc[t]) + 1 = BLOCK_CAP
               THEN /\ Goto(t, "ls_inst_block")
                    /\ UNCHANGED <<token, loc, block, next_block, blocks>>
               ELSE /\ Goto(t, "write")
                    /\ token' = [token EXCEPT ![t].list = [block |-> block[t], offset |-> Offset(loc[t])]]
                    /\ blocks' = Heap_free(blocks, next_block[t])
                    /\ SetLocals(t, 0, Null, Null)
       ELSE /\ Goto(t, "ls_load")
            /\ SetLocals(t, 0, Null, next_block[t])
            /\ UNCHANGED <<tail, tail_log, token, blocks>>
    /\ UNCHANGED <<kind, deadline, msg, cxvars, head, receivers, cvars,
                   started, sent_ok, sent_err, recvd, saw_disc>>

\* start_send at the last slot: tail.block.store(next_block)
List_install_block(t) ==
    /\ pc[t] = "ls_inst_block"
    /\ tail' = [tail EXCEPT !.block = next_block[t]]
    /\ Goto(t, "ls_inst_index")
    /\ UNCHANGED <<tvars, block, next_block, cxvars, head, receivers, blocks, cvars, hvars>>

\* start_send at the last slot: tail.index.fetch_add(1 << SHIFT)
List_install_index(t) ==
    /\ pc[t] = "ls_inst_index"
    /\ tail' = [tail EXCEPT !.index = @ + 2 ^ SHIFT]
    /\ Goto(t, "ls_inst_next")
    /\ UNCHANGED <<tvars, block, next_block, cxvars, head, receivers, blocks, cvars, hvars>>

\* start_send at the last slot: (*block).next.store(next_block); the token
List_install_next(t) ==
    /\ pc[t] = "ls_inst_next"
    /\ blocks' = [blocks EXCEPT ![block[t][1]].next = next_block[t]]
    /\ token' = [token EXCEPT ![t].list = [block |-> block[t], offset |-> Offset(loc[t])]]
    /\ SetLocals(t, 0, Null, Null)
    /\ Goto(t, "write")
    /\ UNCHANGED <<kind, deadline, msg, cxvars, head, tail, receivers, cvars, hvars>>

\* write: store the message and fetch_or(WRITE) on the slot's state
List_write(t) ==
    /\ pc[t] = "write"
    /\ blocks' = [blocks EXCEPT ![token[t].list.block[1]].slots[token[t].list.offset] =
                     [state |-> SetBit(@.state, WRITE), msg |-> msg[t]]]
    /\ token' = [token EXCEPT ![t] = NullToken]
    /\ Goto(t, "w_notify")
    /\ UNCHANGED <<kind, deadline, msg, loc, block, next_block, cxvars, head, tail,
                   receivers, cvars, hvars>>

\* write: receivers.notify() loads is_empty; if set, write returns Ok
List_write_notify(t) ==
    /\ pc[t] = "w_notify"
    /\ IF receivers.is_empty
       THEN /\ List_return(t)
            /\ Sent_ok(msg[t])
       ELSE /\ Goto(t, "w_notify_locked")
            /\ UNCHANGED <<tvars, block, hvars>>
    /\ UNCHANGED <<next_block, cxvars, head, tail, receivers, blocks, cvars>>

\* write: the locked part of receivers.notify(), then Ok
List_write_notify_locked(t) ==
    /\ pc[t] = "w_notify_locked"
    /\ receivers' = SyncWaker_notify(receivers, t)
    /\ SetCx(IF receivers.is_empty THEN CxNow ELSE Cx_after_try_select(receivers.inner, t))
    /\ List_return(t)
    /\ Sent_ok(msg[t])
    /\ UNCHANGED <<next_block, head, tail, blocks, cvars>>

(* ----- list.rs: receive side ----- *)
\* the two integer locals of a call: head and new_head in start_recv, the
\* position taken and Block::destroy's index in read, tail and head in
\* discard_all_messages
SetLoc(t, a, b) ==
    /\ loc' = [loc EXCEPT ![t] = a]
    /\ loc2' = [loc2 EXCEPT ![t] = b]

\* recv(deadline) / try_recv() is called; start_recv loads head.index
List_recv(t, k, d) ==
    /\ pc[t] = "idle"
    /\ saw_disc[t] < MaxDisc
    /\ Goto(t, "lr_block")
    /\ kind' = [kind EXCEPT ![t] = k]
    /\ deadline' = [deadline EXCEPT ![t] = d]
    /\ SetLoc(t, head.index, head.index + 2 ^ SHIFT)
    /\ UNCHANGED <<msg, token, block, next_block, cxvars, head, tail, receivers,
                   blocks, cvars, hvars>>

\* start_recv: reload head.index (after a failed CAS or a spin)
List_start_recv_load(t) ==
    /\ pc[t] = "lr_load"
    /\ SetLoc(t, head.index, head.index + 2 ^ SHIFT)
    /\ Goto(t, "lr_block")
    /\ UNCHANGED <<kind, deadline, msg, token, block, next_block, cxvars, head, tail,
                   receivers, blocks, cvars, hvars>>

\* start_recv, after tail has been looked at or skipped: a null block spins
List_start_recv_null(t, nh) ==
    IF block[t] = Null
    THEN /\ Goto(t, "lr_load")
         /\ SetLoc(t, 0, 0)
    ELSE /\ Goto(t, "lr_cas")
         /\ SetLoc(t, loc[t], nh)

\* start_recv: load head.block; at the end of the block spin; an unmarked
\* head looks at tail next
List_start_recv_block(t) ==
    /\ pc[t] = "lr_block"
    /\ IF Offset(loc[t]) = BLOCK_CAP
       THEN /\ Goto(t, "lr_load")
            /\ SetLoc(t, 0, 0)
            /\ UNCHANGED block
       ELSE /\ block' = [block EXCEPT ![t] = head.block]
            /\ IF ~TestBit(loc2[t], MARK_BIT)
               THEN Goto(t, "lr_tail") /\ UNCHANGED <<loc, loc2>>
               ELSE IF head.block = Null
               THEN Goto(t, "lr_load") /\ SetLoc(t, 0, 0)
               ELSE Goto(t, "lr_cas") /\ UNCHANGED <<loc, loc2>>
    /\ UNCHANGED <<kind, deadline, msg, token, next_block, cxvars, head, tail,
                   receivers, blocks, cvars, hvars>>

\* start_recv that goes on to its CAS without comparing head with tail
List_start_recv_tail_skipped(t) ==
    /\ pc[t] = "lr_tail"
    /\ List_start_recv_null(t, loc2[t])
    /\ UNCHANGED <<kind, deadline, msg, token, block, hvars>>
    /\ UNCHANGED <<next_block, cxvars, head, tail, receivers, blocks, cvars>>

\* start_recv: load tail.index.  Same position as head: marked: null token,
\* with which read returns Err; unmarked: start_recv returns false: try_recv
\* returns Empty, recv checks the deadline and goes on to block.  Tail in
\* another block: new_head gets the mark.
List_start_recv_tail(t) ==
    /\ pc[t] = "lr_tail"
    /\ IF Shr(loc[t]) = Shr(tail.index)
       THEN IF TestBit(tail.index, MARK_BIT)
            THEN /\ List_return(t)
                 /\ Recv_disconnected(t)
            ELSE IF kind[t] = "try_recv"
                 THEN /\ List_return(t)
                      /\ UNCHANGED hvars
                 ELSE \/ /\ deadline[t]
                         /\ List_return(t)
                         /\ UNCHANGED hvars
                      \/ /\ Goto(t, "register")
                         /\ SetLoc(t, 0, 0)
                         /\ block' = [block EXCEPT ![t] = Null]
                         /\ UNCHANGED <<kind, deadline, msg, token, hvars>>
       ELSE /\ List_start_recv_null(t,
                 IF Shr(loc[t]) \div LAP # Shr(tail.index) \div LAP
                 THEN SetBit(loc2[t], MARK_BIT)
                 ELSE loc2[t])
            /\ UNCHANGED <<kind, deadline, msg, token, block, hvars>>
    /\ UNCHANGED <<next_block, cxvars, head, tail, receivers, blocks, cvars>>

\* start_recv with a plain store of head.index in the place of
\* compare_exchange
List_start_recv_store(t) ==
    /\ pc[t] = "lr_cas"
    /\ head' = [head EXCEPT !.index = loc2[t]]
    /\ Call_decided(t)
    /\ IF Offset(loc[t]) + 1 = BLOCK_CAP
       THEN /\ Goto(t, "lr_wait_next")
            /\ UNCHANGED <<token, loc, loc2, block>>
       ELSE /\ Goto(t, "read")
            /\ token' = [token EXCEPT ![t].list =
                             [block |-> block[t], offset |-> Offset(loc[t])]]
            /\ SetLoc(t, Shr(loc[t]), 0)
            /\ block' = [block EXCEPT ![t] = Null]
    /\ UNCHANGED <<msg, next_block, cxvars, tail, receivers, blocks, cvars, hvars>>

\* start_recv: compare_exchange of head.index.  On success: at the last slot
\* go on to move head to the next block, else prepare the token
List_start_recv_cas(t) ==
    /\ pc[t] = "lr_cas"
    /\ IF head.index = loc[t]
       THEN /\ head' = [head EXCEPT !.index = loc2[t]]
            /\ Call_decided(t)
            /\ IF Offset(loc[t]) + 1 = BLOCK_CAP
               THEN /\ Goto(t, "lr_wait_next")
                    /\ UNCHANGED <<token, loc, loc2, block>>
               ELSE /\ Goto(t, "read")
                    /\ token' = [token EXCEPT ![t].list =
                                     [block |-> block[t], offset |-> Offset(loc[t])]]
                    /\ SetLoc(t, Shr(loc[t]), 0)
                    /\ block' = [block EXCEPT ![t] = Null]
       ELSE /\ Goto(t, "lr_load")
            /\ SetLoc(t, 0, 0)
            /\ block' = [block EXCEPT ![t] = Null]
            /\ UNCHANGED <<head, token, kind, deadline>>
    /\ UNCHANGED <<msg, next_block, cxvars, tail, receivers, blocks, cvars, hvars>>

\* start_recv at the last slot: (*block).wait_next() spins until next is set
\* (the local next is kept in next_block)
List_wait_next(t) ==
    /\ pc[t] = "lr_wait_next"
    /\ blocks[block[t][1]].next # Null
    /\ next_block' = [next_block EXCEPT ![t] = blocks[block[t][1]].next]
    /\ Goto(t, "lr_next_next")
    /\ UNCHANGED <<tvars, block, cxvars, head, tail, receivers, blocks, cvars, hvars>>

\* start_recv at the last slot that marks next_index without looking at
\* (*next).next
List_next_next_marked(t) ==
    /\ pc[t] = "lr_next_next"
    /\ SetLoc(t, loc[t], SetBit(ClearBit(loc2[t], MARK_BIT) + 2 ^ SHIFT, MARK_BIT))
    /\ Goto(t, "lr_store_block")
    /\ UNCHANGED <<kind, deadline, msg, token, backoff, block, next_block, cxvars, head,
                   tail, receivers, blocks, cvars, hvars>>

\* start_recv at the last slot: load (*next).next to decide next_index's mark
List_next_next(t) ==
    /\ pc[t] = "lr_next_next"
    /\ LET next_index == ClearBit(loc2[t], MARK_BIT) + 2 ^ SHIFT IN
       SetLoc(t, loc[t], IF blocks[next_block[t][1]].next # Null
                         THEN SetBit(next_index, MARK_BIT) ELSE next_index)
    /\ Goto(t, "lr_store_block")
    /\ UNCHANGED <<kind, deadline, msg, token, backoff, block, next_block, cxvars, head,
                   tail, receivers, blocks, cvars, hvars>>

\* start_recv at the last slot: head.block.store(next)
List_store_block(t) ==
    /\ pc[t] = "lr_store_block"
    /\ head' = [head EXCEPT !.block = next_block[t]]
    /\ Goto(t, "lr_store_index")
    /\ UNCHANGED <<tvars, block, next_block, cxvars, tail, receivers, blocks, cvars, hvars>>

\* start_recv at the last slot: head.index.store(next_index); the token
List_store_index(t) ==
    /\ pc[t] = "lr_store_index"
    /\ head' = [head EXCEPT !.index = loc2[t]]
    /\ token' = [token EXCEPT ![t].list = [block |-> block[t], offset |-> Offset(loc[t])]]
    /\ SetLocals(t, Shr(loc[t]), Null, Null)
    /\ loc2' = [loc2 EXCEPT ![t] = 0]
    /\ Goto(t, "read")
    /\ UNCHANGED <<kind, deadline, msg, backoff, cxvars, tail, receivers, blocks, cvars, hvars>>

\* read: wait_write spins until the slot has WRITE, then the message is
\* read.  Last slot of the block: Block::destroy(block, 0).  Otherwise
\* fetch_or(READ); if DESTROY was set: Block::destroy(block, offset + 1), else
\* Ok(msg).  loc keeps the position the message was taken at, loc2 the index
\* Block::destroy starts at.
List_read(t) ==
    /\ pc[t] = "read"
    /\ LET b == token[t].list.block[1]
           o == token[t].list.offset
           slot == blocks[b].slots[o]
       IN  /\ TestBit(slot.state, WRITE)
           /\ IF o + 1 = BLOCK_CAP
              THEN /\ Goto(t, "blk_destroy")
                   /\ msg' = [msg EXCEPT ![t] = slot.msg]
                   /\ loc2' = [loc2 EXCEPT ![t] = 0]
                   /\ UNCHANGED <<kind, deadline, token, loc, block, blocks, hvars>>
              ELSE /\ blocks' = [blocks EXCEPT ![b].slots[o].state = SetBit(@, READ)]
                   /\ IF TestBit(slot.state, DESTROY)
                      THEN /\ Goto(t, "blk_destroy")
                           /\ msg' = [msg EXCEPT ![t] = slot.msg]
                           /\ loc2' = [loc2 EXCEPT ![t] = o + 1]
                           /\ UNCHANGED <<kind, deadline, token, loc, block, hvars>>
                      ELSE /\ List_return(t)
                           /\ Received(t, slot.msg, loc[t])
    /\ UNCHANGED <<next_block, cxvars, head, tail, receivers, cvars>>

\* Block::destroy: the loop passes the slots whose state has READ; with none
\* left the block is freed and read returns Ok(msg)
List_destroy(t) ==
    /\ pc[t] = "blk_destroy"
    /\ LET b == token[t].list.block[1]
           S == {j \in loc2[t]..(BLOCK_CAP - 2) : ~TestBit(blocks[b].slots[j].state, READ)}
       IN  IF S = {}
           THEN /\ blocks' = Heap_free(blocks, token[t].list.block)
                /\ List_return(t)
                /\ Received(t, msg[t], loc[t])
           ELSE /\ Goto(t, "blk_destroy_or")
                /\ loc2' = [loc2 EXCEPT ![t] = Min(S)]
                /\ UNCHANGED <<kind, deadline, msg, token, loc, block, blocks, hvars>>
    /\ UNCHANGED <<next_block, cxvars, head, tail, receivers, cvars>>

\* a Block::destroy that goes on past a slot whose reader has not set READ
List_destroy_or_eager(t) ==
    /\ pc[t] = "blk_destroy_or"
    /\ blocks' = [blocks EXCEPT ![token[t].list.block[1]].slots[loc2[t]].state = SetBit(@, DESTROY)]
    /\ Goto(t, "blk_destroy")
    /\ loc2' = [loc2 EXCEPT ![t] = @ + 1]
    /\ UNCHANGED <<kind, deadline, msg, token, loc, block, hvars>>
    /\ UNCHANGED <<next_block, cxvars, head, tail, receivers, cvars>>

\* Block::destroy: fetch_or(DESTROY) on a slot seen without READ; still
\* without READ: its reader will go on destroying, read returns Ok(msg)
List_destroy_or(t) ==
    /\ pc[t] = "blk_destroy_or"
    /\ LET b == token[t].list.block[1]
           slot == blocks[b].slots[loc2[t]]
       IN  /\ blocks' = [blocks EXCEPT ![b].slots[loc2[t]].state = SetBit(@, DESTROY)]
           /\ IF ~TestBit(slot.state, READ)
              THEN /\ List_return(t)
                   /\ Received(t, msg[t], loc[t])
              ELSE /\ Goto(t, "blk_destroy")
                   /\ loc2' = [loc2 EXCEPT ![t] = @ + 1]
                   /\ UNCHANGED <<kind, deadline, msg, token, loc, block, hvars>>
    /\ UNCHANGED <<next_block, cxvars, head, tail, receivers, cvars>>

\* recv: Context::with, Operation::hook, receivers.register
List_recv_register(t) ==
    /\ pc[t] = "register"
    /\ SetCx(Context_reset(CxNow, t))
    /\ receivers' = SyncWaker_register(receivers, Operation_hook(t), t)
    /\ Goto(t, "chk_head")
    /\ UNCHANGED <<tvars, block, next_block, head, tail, blocks, cvars, hvars>>

\* recv: is_empty() loads head.index ...
List_recv_is_empty_head(t) ==
    /\ pc[t] = "chk_head"
    /\ loc' = [loc EXCEPT ![t] = head.index]
    /\ Goto(t, "chk_tail")
    /\ UNCHANGED <<kind, deadline, msg, token, loc2, block, next_block, cxvars, head, tail,
                   receivers, blocks, cvars, hvars>>

\* recv's readiness re-check left out: the channel is taken to be still empty
List_recv_is_empty_unchecked(t) ==
    /\ pc[t] = "chk_tail"
    /\ Goto(t, "chk_disc")
    /\ SetLoc(t, 0, 0)
    /\ UNCHANGED <<kind, deadline, msg, token, block, next_block, cxvars, head, tail,
                   receivers, blocks, cvars, hvars>>

\* ... then tail.index: not empty => try_select(Aborted); empty =>
\* is_disconnected()
List_recv_is_empty_tail(t) ==
    /\ pc[t] = "chk_tail"
    /\ IF Shr(loc[t]) = Shr(tail.index)
       THEN Goto(t, "chk_disc")
       ELSE Goto(t, "abort")
    /\ SetLoc(t, 0, 0)
    /\ UNCHANGED <<kind, deadline, msg, token, block, next_block, cxvars, head, tail,
                   receivers, blocks, cvars, hvars>>

\* is_disconnected() of the readiness re-check
List_is_disconnected(t) ==
    /\ pc[t] = "chk_disc"
    /\ IF TestBit(tail.index, MARK_BIT) THEN Goto(t, "abort") ELSE Goto(t, "wait")
    /\ UNCHANGED <<tvars, block, next_block, cxvars, head, tail, receivers, blocks,
                   cvars, hvars>>

\* recv: the match on wait_until's value; then the loop runs again
List_recv_selected(t, sel) ==
    /\ IF sel = Aborted \/ sel = Disconnected
       THEN /\ Goto(t, "unregister")
            /\ select' = [select EXCEPT ![t] = sel]
            /\ UNCHANGED <<cx_packet, park_token>>
       ELSE /\ Goto(t, "lr_load")
            /\ SetCx(Context_leave(CxNow, t))
    /\ UNCHANGED tvars

List_recv_wait(t) ==
    /\ \E sel \in Context_wait_until(t) :
          IF sel = Waiting THEN Context_wait_park(t)
          ELSE List_recv_selected(t, sel)
    /\ UNCHANGED <<block, next_block, head, tail, receivers, blocks, cvars, hvars>>

List_park(t) ==
    /\ Context_park(t)
    /\ UNCHANGED <<block, next_block, head, tail, receivers, blocks, cvars, hvars>>

\* recv: receivers.unregister(oper).unwrap()
List_recv_unregister(t) ==
    /\ pc[t] = "unregister"
    /\ IF Waker_find(receivers.inner, Operation_hook(t)) = 0
       THEN /\ Goto(t, "panicked")
            /\ UNCHANGED receivers
       ELSE /\ receivers' = SyncWaker_unregister(receivers, Operation_hook(t))
            /\ Goto(t, "lr_load")
    /\ SetCx(Context_leave(CxNow, t))
    /\ UNCHANGED <<tvars, block, next_block, head, tail, blocks, cvars, hvars>>

(* ----- list.rs: disconnect ----- *)
List_release(t) ==
    /\ Counter_release(t)
    /\ UNCHANGED <<tvars, block, next_block, cxvars, head, tail, receivers, blocks, hvars>>

\* Drop for Channel: the walk from position hd to position tl through the
\* blocks from b on: a block is freed when the walk leaves it, the last one
\* after the loop; the messages in between are dropped in place.  ok is false
\* when the walk dereferences a null block or has started behind tl.
RECURSIVE List_drop_walk(_, _, _, _)
List_drop_walk(h, hd, tl, b) ==
    IF hd = tl THEN [heap |-> Heap_free(h, b), ok |-> TRUE]
    ELSE IF b = Null \/ hd > tl THEN [heap |-> h, ok |-> FALSE]
    ELSE IF Offset(hd) < BLOCK_CAP THEN List_drop_walk(h, hd + 2 ^ SHIFT, tl, b)
    ELSE List_drop_walk(Heap_free(h, b), hd + 2 ^ SHIFT, tl, h[b[1]].next)

\* Drop for Channel on the channel as it is now
List_Channel_drop ==
    List_drop_walk(blocks, ClearBit(head.index, MARK_BIT), ClearBit(tail.index, MARK_BIT),
                   head.block)

\* release: destroy.swap(true); the second swap drops the Counter's allocation
\* and with it the Channel
List_counter_destroy(t) ==
    /\ Counter_destroy(t)
    /\ blocks' = IF counter.destroy THEN List_Channel_drop.heap ELSE blocks
    /\ UNCHANGED <<tvars, block, next_block, cxvars, head, tail, receivers, hvars>>

\* disconnect_senders / disconnect_receivers: fetch_or(MARK_BIT) on tail.index;
\* only the first call goes on: the last sender to receivers.disconnect(), the
\* last receiver to discard_all_messages()
List_disconnect(t) ==
    /\ pc[t] = "disconnect"
    /\ tail' = [tail EXCEPT !.index = SetBit(@, MARK_BIT)]
    /\ Goto(t, IF TestBit(tail.index, MARK_BIT) THEN "destroy"
               ELSE IF t \in Senders THEN "disc_receivers" ELSE "dam_tail")
    /\ UNCHANGED <<tvars, block, next_block, cxvars, head, receivers, blocks, cvars, hvars>>

\* disconnect_senders: self.receivers.disconnect()
List_disconnect_senders(t) ==
    /\ pc[t] = "disc_receivers"
    /\ SetCx(Cx_after_disconnect(Waker_disconnect_woken(receivers.inner)))
    /\ receivers' = SyncWaker_disconnect(receivers)
    /\ Goto(t, "destroy")
    /\ UNCHANGED <<tvars, block, next_block, head, tail, blocks, cvars, hvars>>

\* discard_all_messages: load tail.index, spinning while it is at a block end
List_discard_tail(t) ==
    /\ pc[t] = "dam_tail"
    /\ Offset(tail.index) # BLOCK_CAP
    /\ SetLoc(t, tail.index, 0)
    /\ Goto(t, "dam_head")
    /\ UNCHANGED <<kind, deadline, msg, token, block, next_block, cxvars, head, tail,
                   receivers, blocks, cvars, hvars>>

\* discard_all_messages: load head.index
List_discard_head(t) ==
    /\ pc[t] = "dam_head"
    /\ loc2' = [loc2 EXCEPT ![t] = head.index]
    /\ Goto(t, "dam_block")
    /\ UNCHANGED <<kind, deadline, msg, token, loc, block, next_block, cxvars, head, tail,
                   receivers, blocks, cvars, hvars>>

\* discard_all_messages: load head.block
List_discard_block(t) ==
    /\ pc[t] = "dam_block"
    /\ block' = [block EXCEPT ![t] = head.block]
    /\ Goto(t, "dam_loop")
    /\ UNCHANGED <<tvars, next_block, cxvars, head, tail, receivers, blocks, cvars, hvars>>

\* discard_all_messages: one pass of the loop from head to tail: drop the
\* message of a slot once it is written, or free the block at its end and move
\* to the next; a null block is dereferenced without a check.  After the loop
\* the last block is freed.
List_discard_loop(t) ==
    /\ pc[t] = "dam_loop"
    /\ IF Shr(loc2[t]) # Shr(loc[t])
       THEN IF block[t] = Null
            THEN /\ Goto(t, "null_deref")
                 /\ UNCHANGED <<loc2, block, blocks>>
            ELSE IF Offset(loc2[t]) < BLOCK_CAP
                 THEN /\ TestBit(blocks[block[t][1]].slots[Offset(loc2[t])].state, WRITE)
                      /\ loc2' = [loc2 EXCEPT ![t] = @ + 2 ^ SHIFT]
                      /\ UNCHANGED <<pc, block, blocks>>
                 ELSE /\ blocks[block[t][1]].next # Null
                      /\ blocks' = Heap_free(blocks, block[t])
                      /\ block' = [block EXCEPT ![t] = blocks[block[t][1]].next]
                      /\ loc2' = [loc2 EXCEPT ![t] = @ + 2 ^ SHIFT]
                      /\ UNCHANGED pc
       ELSE /\ blocks' = Heap_free(blocks, block[t])
            /\ block' = [block EXCEPT ![t] = Null]
            /\ Goto(t, "dam_store_block")
            /\ UNCHANGED loc2
    /\ UNCHANGED <<kind, deadline, msg, token, loc, next_block, cxvars, head, tail,
                   receivers, cvars, hvars>>

\* discard_all_messages: head.block.store(null)
List_discard_store_block(t) ==
    /\ pc[t] = "dam_store_block"
    /\ head' = [head EXCEPT !.block = Null]
    /\ Goto(t, "dam_store_index")
    /\ UNCHANGED <<tvars, block, next_block, cxvars, tail, receivers, blocks, cvars, hvars>>

\* discard_all_messages: head.index.store(head & !MARK_BIT)
List_discard_store_index(t) ==
    /\ pc[t] = "dam_store_index"
    /\ head' = [head EXCEPT !.index = ClearBit(loc2[t], MARK_BIT)]
    /\ SetLoc(t, 0, 0)
    /\ Goto(t, "destroy")
    /\ UNCHANGED <<kind, deadline, msg, token, block, next_block, cxvars, tail,
                   receivers, blocks, cvars, hvars>>

(* ----- list.rs: Channel::new and what came before the run ----- *)
\* messages sent and received, one after the other, before the run starts:
\* none, or as many as leave two or one free slots in the first block
ListPrior == {0, BLOCK_CAP - 2, BLOCK_CAP - 1}

\* Channel::new() followed by k times send then recv on one thread
List_new(k) ==
    /\ flavor = "list"
    /\ buffer = << >>
    /\ senders = SyncWaker_new
    /\ inner = Null
    /\ packet = [t \in Threads |-> Null]
    /\ block = [t \in Threads |-> Null]
    /\ next_block = [t \in Threads |-> Null]
    /\ receivers = SyncWaker_new
    /\ head = [index |-> k * 2 ^ SHIFT, block |-> IF k = 0 THEN Null ELSE <<1>>]
    /\ tail = [index |-> k * 2 ^ SHIFT, block |-> IF k = 0 THEN Null ELSE <<1>>]
    /\ blocks = IF k = 0 THEN << >>
                ELSE <<[Block_new EXCEPT !.slots =
                          [i \in 0..(BLOCK_CAP - 1) |->
                              IF i < k THEN [state |-> WRITE + READ, msg |-> <<0, i>>]
                              ELSE [state |-> 0, msg |-> NoMsg]]]>>

InitList == InitThreads /\ \E k \in ListPrior : List_new(k)

\* a thread starts a call on its endpoint, or drops the endpoint
List_call(t) ==
    /\ flavor = "list"
    /\ UNCHANGED nonlist
    /\ \/ /\ t \in Senders
          /\ List_send(t)
          /\ UNCHANGED loc2
       \/ /\ t \in Receivers
          /\ \/ \E d \in BOOLEAN : List_recv(t, "recv", d)
             \/ List_recv(t, "try_recv", FALSE)
       \/ List_release(t)

\* a thread takes the next step of the call (or of the drop) it is in
List_step(t) ==
    /\ flavor = "list"
    /\ UNCHANGED nonlist
    /\ \/ /\ t \in Senders
          /\ UNCHANGED loc2
          /\ \/ List_start_send_load(t)
             \/ List_start_send_block(t)
             \/ List_start_send_cas_block(t)
             \/ List_start_send_head_block(t)
             \/ List_start_send_cas(t)
             \/ List_install_block(t)
             \/ List_install_index(t)
             \/ List_install_next(t)
             \/ List_write(t)
             \/ List_write_notify(t)
             \/ List_write_notify_locked(t)
       \/ /\ t \in Receivers
          /\ \/ List_start_recv_load(t)
             \/ List_start_recv_block(t)
             \/ List_start_recv_tail(t)
             \/ List_start_recv_cas(t)
             \/ List_wait_next(t)
             \/ List_next_next(t)
             \/ List_store_block(t)
             \/ List_store_index(t)
             \/ List_read(t)
             \/ List_destroy(t)
             \/ List_destroy_or(t)
             \/ List_recv_register(t)
             \/ List_recv_is_empty_head(t)
             \/ List_recv_is_empty_tail(t)
             \/ List_is_disconnected(t)
             \/ List_recv_wait(t)
             \/ List_park(t)
             \/ List_recv_unregister(t)
       \/ List_disconnect(t)
       \/ List_disconnect_senders(t)
       \/ List_discard_tail(t)
       \/ List_discard_head(t)
       \/ List_discard_block(t)
       \/ List_discard_loop(t)
       \/ List_discard_store_block(t)
       \/ List_discard_store_index(t)
       \/ List_counter_destroy(t)

(* ----- list.rs: len ----- *)
\* a len that does not take the block-end positions out of the difference
List_len_value_uncompensated(tl, hd) ==
    LET t1 == tl - (tl % (2 ^ SHIFT))
        h1 == hd - (hd % (2 ^ SHIFT))
        t2 == IF Offset(t1) = LAP - 1 THEN t1 + 2 ^ SHIFT ELSE t1
        h2 == IF Offset(h1) = LAP - 1 THEN h1 + 2 ^ SHIFT ELSE h1
        lap == Shr(h2) \div LAP
        t3 == Shr(t2 - (lap * LAP) * 2 ^ SHIFT)
        h3 == Shr(h2 - (lap * LAP) * 2 ^ SHIFT)
    IN  t3 - h3

\* the value len computes from a tail index and a head index: erase the lower
\* bits, move an index at a block end to the next block, rotate so that head
\* is in the first block, shift, and take the block ends out of the difference
List_len_value(tl, hd) ==
    LET t1 == tl - (tl % (2 ^ SHIFT))
        h1 == hd - (hd % (2 ^ SHIFT))
        t2 == IF Offset(t1) = LAP - 1 THEN t1 + 2 ^ SHIFT ELSE t1
        h2 == IF Offset(h1) = LAP - 1 THEN h1 + 2 ^ SHIFT ELSE h1
        lap == Shr(h2) \div LAP
        t3 == Shr(t2 - (lap * LAP) * 2 ^ SHIFT)
        h3 == Shr(h2 - (lap * LAP) * 2 ^ SHIFT)
    IN  t3 - h3 - (t3 \div LAP)

\* len is called (from either endpoint): load tail.index
List_len(t) ==
    /\ pc[t] = "idle"
    /\ SetLoc(t, tail.index, 0)
    /\ Goto(t, "len_head")
    /\ UNCHANGED <<kind, deadline, msg, token, block, next_block, cxvars, head, tail,
                   receivers, blocks, cvars, hvars>>

\* len: load tail.index again at the top of the loop
List_len_tail(t) ==
    /\ pc[t] = "len_tail"
    /\ SetLoc(t, tail.index, 0)
    /\ Goto(t, "len_head")
    /\ UNCHANGED <<kind, deadline, msg, token, block, next_block, cxvars, head, tail,
                   receivers, blocks, cvars, hvars>>

\* len: load head.index
List_len_head(t) ==
    /\ pc[t] = "len_head"
    /\ SetLoc(t, loc[t], head.index)
    /\ Goto(t, "len_check")
    /\ UNCHANGED <<kind, deadline, msg, token, block, next_block, cxvars, head, tail,
                   receivers, blocks, cvars, hvars>>

\* len: load tail.index again; unchanged: return the value, changed: start over
List_len_check(t) ==
    /\ pc[t] = "len_check"
    /\ IF tail.index = loc[t]
       THEN Return(t)
       ELSE /\ Goto(t, "len_tail")
            /\ SetLoc(t, 0, 0)
            /\ UNCHANGED <<kind, deadline, msg, token, backoff>>
    /\ UNCHANGED <<block, next_block, cxvars, head, tail, receivers, blocks, cvars, hvars>>

\* the steps of len
List_len_step(t) ==
    /\ flavor = "list"
    /\ UNCHANGED nonlist
    /\ \/ List_len(t)
       \/ List_len_tail(t)
       \/ List_len_head(t)
       \/ List_len_check(t)

\* the list channel with len calls among the sends and recvs
ListLenNext == \E t \in Threads : List_call(t) \/ List_step(t) \/ List_len_step(t)

ListNext == \E t \in Threads : List_call(t) \/ List_step(t)

(* ------------------------------- zero.rs ------------------------------ *)
nonzero == <<flavor, head, tail, buffer, senders, receivers, blocks, block, next_block,
             backoff, loc, loc2, bvars>>

\* a packet on the sender's stack that holds another message than the caller's
Packet_message_other(m) == [on_stack |-> TRUE, ready |-> FALSE, msg |-> <<0, 0>>]

\* Packet::empty_on_stack / Packet::message_on_stack
Packet_empty_on_stack == [on_stack |-> TRUE, ready |-> FALSE, msg |-> NoMsg]
Packet_message_on_stack(m) == [on_stack |-> TRUE, ready |-> FALSE, msg |-> m]

\* Channel::new()
Zero_new ==
    /\ flavor = "zero"
    /\ inner = [senders |-> Waker_new, receivers |-> Waker_new, is_disconnected |-> FALSE]
    /\ packet = [t \in Threads |-> Null]
    /\ head = 0
    /\ tail = 0
    /\ buffer = << >>
    /\ senders = SyncWaker_new
    /\ receivers = SyncWaker_new
    /\ blocks = << >>
    /\ block = [t \in Threads |-> Null]
    /\ next_block = [t \in Threads |-> Null]

\* a call that blocked returns: its packet leaves the stack with it
Zero_return(t) ==
    /\ Return(t)
    /\ packet' = [packet EXCEPT ![t] = Null]
    /\ SetCx(Context_leave(CxNow, t))

(* ----- zero.rs: send side ----- *)
\* send(msg, deadline) / try_send(msg): the critical section.  A waiting
\* receiver is selected and its packet taken into the token; else a
\* disconnected channel returns Disconnected(msg); else try_send returns
\* Full(msg) and send registers a packet holding msg and goes on to block.
Zero_send(t, k, d) ==
    /\ pc[t] = "idle"
    /\ started < MaxMsgs
    /\ started' = started + 1
    /\ LET m == <<t, started + 1>>
           pos == Waker_try_select_pos(inner.receivers, t)
       IN  IF pos # 0
           THEN /\ inner' = [inner EXCEPT !.receivers = Waker_try_select(@, t)]
                /\ SetCx(Cx_after_try_select(inner.receivers, t))
                /\ token' = [token EXCEPT ![t].zero = inner.receivers.selectors[pos].packet]
                /\ msg' = [msg EXCEPT ![t] = m]
                /\ Goto(t, "z_write")
                /\ UNCHANGED <<kind, deadline, packet, sent_err>>
           ELSE IF inner.is_disconnected \/ k = "try_send"
           THEN /\ sent_err' = sent_err \cup
                      {[m |-> m, tag |-> IF inner.is_disconnected THEN "Disconnected" ELSE "Full"]}
                /\ UNCHANGED <<pc, kind, deadline, msg, token, cxvars, inner, packet>>
           ELSE /\ SetCx(Context_reset(CxNow, t))
                /\ packet' = [packet EXCEPT ![t] = Packet_message_on_stack(m)]
                /\ inner' = [inner EXCEPT
                      !.senders = Waker_register_with_packet(@, Operation_hook(t), <<t>>, t),
                      !.receivers = Waker_notify(@)]
                /\ kind' = [kind EXCEPT ![t] = k]
                /\ deadline' = [deadline EXCEPT ![t] = d]
                /\ msg' = [msg EXCEPT ![t] = m]
                /\ Goto(t, "wait")
                /\ UNCHANGED <<token, sent_err>>
    /\ UNCHANGED <<cvars, sent_ok, recvd, saw_disc, tail_log>>

\* write: put the message into the packet and store ready; send returns Ok
Zero_write(t) ==
    /\ pc[t] = "z_write"
    /\ LET q == token[t].zero[1] IN
       IF packet[q] = Null
       THEN /\ Goto(t, "dangling")
            /\ UNCHANGED <<tvars, packet, hvars>>
       ELSE /\ packet' = [packet EXCEPT ![q] = [@ EXCEPT !.msg = msg[t], !.ready = TRUE]]
            /\ Return(t)
            /\ Sent_ok(msg[t])
    /\ UNCHANGED <<cxvars, inner, cvars>>

\* send: the match on wait_until's value
Zero_send_selected(t, sel) ==
    /\ Goto(t, IF sel = Aborted THEN "z_aborted"
               ELSE IF sel = Disconnected THEN "z_disconnected"
               ELSE "z_wait_ready")
    /\ select' = [select EXCEPT ![t] = sel]
    /\ UNCHANGED <<cx_packet, park_token, tvars>>

Zero_send_wait(t) ==
    /\ \E sel \in Context_wait_until(t) :
          IF sel = Waiting THEN Context_wait_park(t)
          ELSE Zero_send_selected(t, sel)
    /\ UNCHANGED <<inner, packet, cvars, hvars>>

\* send, Aborted | Disconnected: lock, senders.unregister(oper).unwrap(), take
\* the message back out of the packet, Err(Timeout(msg) | Disconnected(msg))
Zero_send_unregister(t) ==
    /\ pc[t] \in {"z_aborted", "z_disconnected"}
    /\ IF Waker_find(inner.senders, Operation_hook(t)) = 0 \/ packet[t].msg = NoMsg
       THEN /\ Goto(t, "panicked")
            /\ UNCHANGED <<tvars, cxvars, inner, packet, hvars>>
       ELSE /\ inner' = [inner EXCEPT !.senders = Waker_unregister(@, Operation_hook(t))]
            /\ Zero_return(t)
            /\ Sent_err(packet[t].msg, IF pc[t] = "z_aborted" THEN "Timeout" ELSE "Disconnected")
    /\ UNCHANGED cvars

\* send, Operation, without packet.wait_ready(): Ok at once
Zero_send_unready(t) ==
    /\ pc[t] = "z_wait_ready"
    /\ Zero_return(t)
    /\ Sent_ok(msg[t])
    /\ UNCHANGED <<inner, cvars>>

\* send, Operation: packet.wait_ready() spins until the receiver has stored
\* ready; Ok
Zero_send_ready(t) ==
    /\ pc[t] = "z_wait_ready"
    /\ packet[t].ready
    /\ Zero_return(t)
    /\ Sent_ok(msg[t])
    /\ UNCHANGED <<inner, cvars>>

(* ----- zero.rs: receive side ----- *)
\* recv(deadline) / try_recv(): the critical section, mirror image of send
Zero_recv(t, k, d) ==
    /\ pc[t] = "idle"
    /\ saw_disc[t] < MaxDisc
    /\ LET pos == Waker_try_select_pos(inner.senders, t)
       IN  IF pos # 0
           THEN /\ inner' = [inner EXCEPT !.senders = Waker_try_select(@, t)]
                /\ SetCx(Cx_after_try_select(inner.senders, t))
                /\ token' = [token EXCEPT ![t].zero = inner.senders.selectors[pos].packet]
                /\ Goto(t, "z_read")
                /\ UNCHANGED <<kind, deadline, packet, saw_disc>>
           ELSE IF inner.is_disconnected
           THEN /\ saw_disc' = [saw_disc EXCEPT ![t] = @ + 1]
                /\ UNCHANGED <<pc, kind, deadline, token, cxvars, inner, packet>>
           ELSE IF k = "try_recv"
           THEN UNCHANGED <<pc, kind, deadline, token, cxvars, inner, packet, saw_disc>>
           ELSE /\ SetCx(Context_reset(CxNow, t))
                /\ packet' = [packet EXCEPT ![t] = Packet_empty_on_stack]
                /\ inner' = [inner EXCEPT
                      !.receivers = Waker_register_with_packet(@, Operation_hook(t), <<t>>, t),
                      !.senders = Waker_notify(@)]
                /\ kind' = [kind EXCEPT ![t] = k]
                /\ deadline' = [deadline EXCEPT ![t] = d]
                /\ Goto(t, "wait")
                /\ UNCHANGED <<token, saw_disc>>
    /\ UNCHANGED <<msg, cvars, started, sent_ok, sent_err, recvd, tail_log>>

\* read: a packet on the sender's stack: take the message, store ready,
\* Ok(msg); a packet on the heap: wait_ready(), take the message, free it
Zero_read(t) ==
    /\ pc[t] = "z_read"
    /\ LET q == token[t].zero[1] IN
       IF packet[q] = Null
       THEN /\ Goto(t, "dangling")
            /\ UNCHANGED <<tvars, packet, hvars>>
       ELSE IF packet[q].msg = NoMsg
       THEN /\ Goto(t, "panicked")
            /\ UNCHANGED <<tvars, packet, hvars>>
       ELSE /\ packet[q].on_stack \/ packet[q].ready
            /\ packet' = [packet EXCEPT ![q] =
                             IF @.on_stack THEN [@ EXCEPT !.msg = NoMsg, !.ready = TRUE]
                             ELSE Null]
            /\ Return(t)
            /\ Received(t, packet[q].msg, 0)
    /\ UNCHANGED <<cxvars, inner, cvars>>

\* recv: the match on wait_until's value
Zero_recv_selected(t, sel) == Zero_send_selected(t, sel)

Zero_recv_wait(t) ==
    /\ \E sel \in Context_wait_until(t) :
          IF sel = Waiting THEN Context_wait_park(t)
          ELSE Zero_recv_selected(t, sel)
    /\ UNCHANGED <<inner, packet, cvars, hvars>>

\* recv, Aborted | Disconnected: lock, receivers.unregister(oper).unwrap(),
\* Err(Timeout | Disconnected)
Zero_recv_unregister(t) ==
    /\ pc[t] \in {"z_aborted", "z_disconnected"}
    /\ IF Waker_find(inner.receivers, Operation_hook(t)) = 0
       THEN /\ Goto(t, "panicked")
            /\ UNCHANGED <<tvars, cxvars, inner, packet, hvars>>
       ELSE /\ inner' = [inner EXCEPT !.receivers = Waker_unregister(@, Operation_hook(t))]
            /\ Zero_return(t)
            /\ IF pc[t] = "z_disconnected" THEN Recv_disconnected(t) ELSE UNCHANGED hvars
    /\ UNCHANGED cvars

\* recv, Operation, without packet.wait_ready(): the message is taken out of
\* the packet at once
Zero_recv_hasty(t) ==
    /\ pc[t] = "z_wait_ready"
    /\ IF packet[t].msg = NoMsg
       THEN /\ Goto(t, "panicked")
            /\ UNCHANGED <<tvars, cxvars, packet, hvars>>
       ELSE /\ Zero_return(t)
            /\ Received(t, packet[t].msg, 0)
    /\ UNCHANGED <<inner, cvars>>

\* recv, Operation: packet.wait_ready() spins until the sender has stored
\* ready; the message is taken out of the packet; Ok(msg)
Zero_recv_ready(t) ==
    /\ pc[t] = "z_wait_ready"
    /\ packet[t].ready
    /\ IF packet[t].msg = NoMsg
       THEN /\ Goto(t, "panicked")
            /\ UNCHANGED <<tvars, cxvars, packet, hvars>>
       ELSE /\ Zero_return(t)
            /\ Received(t, packet[t].msg, 0)
    /\ UNCHANGED <<inner, cvars>>

Zero_park(t) ==
    /\ Context_park(t)
    /\ UNCHANGED <<inner, packet, cvars, hvars>>

(* ----- zero.rs: disconnect ----- *)
Zero_release(t) ==
    /\ Counter_release(t)
    /\ UNCHANGED <<tvars, cxvars, inner, packet, hvars>>

Zero_counter_destroy(t) ==
    /\ Counter_destroy(t)
    /\ UNCHANGED <<tvars, cxvars, inner, packet, hvars>>

\* a disconnect that sets the flag and leaves the two wakers alone
Zero_disconnect_silent(t) ==
    /\ pc[t] = "disconnect"
    /\ inner' = [inner EXCEPT !.is_disconnected = TRUE]
    /\ Goto(t, "destroy")
    /\ UNCHANGED <<tvars, cxvars, packet, cvars, hvars>>

\* disconnect: one critical section; only the first call disconnects the
\* two wakers
Zero_disconnect(t) ==
    /\ pc[t] = "disconnect"
    /\ IF ~inner.is_disconnected
       THEN /\ inner' = [senders |-> Waker_notify(inner.senders),
                         receivers |-> Waker_notify(inner.receivers),
                         is_disconnected |-> TRUE]
            /\ SetCx(Cx_after_disconnect(Waker_disconnect_woken(inner.senders)
                                         \cup Waker_disconnect_woken(inner.receivers)))
       ELSE UNCHANGED <<inner, cxvars>>
    /\ Goto(t, "destroy")
    /\ UNCHANGED <<tvars, packet, cvars, hvars>>

InitZero == InitThreads /\ Zero_new

\* a thread starts a call on its endpoint, or drops the endpoint
Zero_call(t) ==
    /\ flavor = "zero"
    /\ UNCHANGED nonzero
    /\ \/ /\ t \in Senders
          /\ \/ \E d \in BOOLEAN : Zero_send(t, "send", d)
             \/ Zero_send(t, "try_send", FALSE)
       \/ /\ t \in Receivers
          /\ \/ \E d \in BOOLEAN : Zero_recv(t, "recv", d)
             \/ Zero_recv(t, "try_recv", FALSE)
       \/ Zero_release(t)

\* a thread takes the next step of the call (or of the drop) it is in
Zero_step(t) ==
    /\ flavor = "zero"
    /\ UNCHANGED nonzero
    /\ \/ /\ t \in Senders
          /\ \/ Zero_write(t)
             \/ Zero_send_wait(t)
             \/ Zero_send_unregister(t)
             \/ Zero_send_ready(t)
       \/ /\ t \in Receivers
          /\ \/ Zero_read(t)
             \/ Zero_recv_wait(t)
             \/ Zero_recv_unregister(t)
             \/ Zero_recv_ready(t)
       \/ Zero_park(t)
       \/ Zero_disconnect(t)
       \/ Zero_counter_destroy(t)

ZeroNext == \E t \in Threads : Zero_call(t) \/ Zero_step(t)

(* ------------------------------ utils.rs: Backoff --------------------- *)
\* The Backoff of thread t is its local `backoff[t]` (the field `step`); the
\* call in progress keeps its loop counter in loc[t] and the loop bound in
\* loc2[t], and counts the spin hints and the yields it executes.

\* 2^step in the place of step^2
Backoff_pow2_exp(step) == 2 ^ step

\* step.pow(2)
Backoff_pow2(step) == step * step

\* Backoff::is_completed
Backoff_is_completed(step) == step > SPIN_LIMIT

\* Backoff::new(): step 0
Backoff_new(t) ==
    /\ pc[t] = "idle"
    /\ Cardinality({u \in Threads : pc[u] \in {"backoff", "spin_light", "spin_heavy"}}) < MaxSpinners
    /\ Goto(t, "backoff")
    /\ backoff' = [backoff EXCEPT ![t] = 0]
    /\ UNCHANGED <<kind, deadline, msg, token, loc, loc2, bvars>>

\* spin_light is called: the bound of its loop is min(step, SPIN_LIMIT)^2
Backoff_spin_light(t) ==
    /\ pc[t] = "backoff"
    /\ backoff[t] < MaxStep
    /\ Goto(t, "spin_light")
    /\ SetLoc(t, 0, Backoff_pow2(IF backoff[t] < SPIN_LIMIT THEN backoff[t] ELSE SPIN_LIMIT))
    /\ spin_hints' = [spin_hints EXCEPT ![t] = 0]
    /\ yields' = [yields EXCEPT ![t] = 0]
    /\ UNCHANGED <<kind, deadline, msg, token, backoff>>

\* one turn of the loop of spin_light: a spin hint, or past the loop step + 1
Backoff_spin_light_loop(t) ==
    /\ pc[t] = "spin_light"
    /\ IF loc[t] < loc2[t]
       THEN /\ spin_hints' = [spin_hints EXCEPT ![t] = @ + 1]
            /\ loc' = [loc EXCEPT ![t] = @ + 1]
            /\ UNCHANGED <<pc, backoff, loc2>>
       ELSE /\ backoff' = [backoff EXCEPT ![t] = @ + 1]
            /\ Goto(t, "backoff")
            /\ UNCHANGED <<spin_hints, loc, loc2>>
    /\ UNCHANGED <<kind, deadline, msg, token, yields>>

\* spin_heavy is called: while step <= SPIN_LIMIT it loops step^2 times,
\* afterwards it yields the thread; either way step + 1
Backoff_spin_heavy(t) ==
    /\ pc[t] = "backoff"
    /\ backoff[t] < MaxStep
    /\ spin_hints' = [spin_hints EXCEPT ![t] = 0]
    /\ IF backoff[t] <= SPIN_LIMIT
       THEN /\ Goto(t, "spin_heavy")
            /\ SetLoc(t, 0, Backoff_pow2(backoff[t]))
            /\ yields' = [yields EXCEPT ![t] = 0]
            /\ UNCHANGED backoff
       ELSE /\ yields' = [yields EXCEPT ![t] = 1]
            /\ backoff' = [backoff EXCEPT ![t] = @ + 1]
            /\ UNCHANGED <<pc, loc, loc2>>
    /\ UNCHANGED <<kind, deadline, msg, token>>

\* one turn of the loop of spin_heavy
Backoff_spin_heavy_loop(t) ==
    /\ pc[t] = "spin_heavy"
    /\ IF loc[t] < loc2[t]
       THEN /\ spin_hints' = [spin_hints EXCEPT ![t] = @ + 1]
            /\ loc' = [loc EXCEPT ![t] = @ + 1]
            /\ UNCHANGED <<pc, backoff, loc2>>
       ELSE /\ backoff' = [backoff EXCEPT ![t] = @ + 1]
            /\ Goto(t, "backoff")
            /\ UNCHANGED <<spin_hints, loc, loc2>>
    /\ UNCHANGED <<kind, deadline, msg, token, yields>>

\* the Backoff goes out of scope
Backoff_drop(t) ==
    /\ pc[t] = "backoff"
    /\ Return(t)
    /\ spin_hints' = [spin_hints EXCEPT ![t] = 0]
    /\ yields' = [yields EXCEPT ![t] = 0]

Backoff_step(t) ==
    /\ UNCHANGED <<cxvars, avars, cvars, hvars, block, next_block, flavor, blocks, inner, packet>>
    /\ \/ Backoff_new(t)
       \/ Backoff_spin_light(t)
       \/ Backoff_spin_light_loop(t)
       \/ Backoff_spin_heavy(t)
       \/ Backoff_spin_heavy_loop(t)
       \/ Backoff_drop(t)

BackoffNext == \E t \in Threads : Backoff_step(t)

(* --------------------------- specifications -------------------------- *)
SpecArray == InitArray /\ [][ArrayNext]_vars

\* an array channel of any capacity up to MaxCap
InitArrayCap == InitThreads /\ \E c \in 1..MaxCap : Array_with_capacity(c)

SpecArrayCap == InitArrayCap /\ [][ArrayNext]_vars

SpecArrayLen == InitArrayCap /\ [][ArrayLenNext]_vars

\* an array channel, a list channel with up to NReceivers receivers
SpecArrayReceivers ==
    (InitEndpoints(AllConfigs) /\ Array_with_capacity(Cap)) /\ [][ArrayNext]_vars

SpecListReceivers ==
    (InitEndpoints(AllConfigs) /\ \E k \in ListPrior : List_new(k)) /\ [][ListNext]_vars

SpecList == InitList /\ [][ListNext]_vars

\* a list channel on which len is called as well
SpecListLen == InitList /\ [][ListLenNext]_vars

SpecZero == InitZero /\ [][ZeroNext]_vars

\* the channel is of one of the two buffered flavors
SpecBuffered == (InitArray \/ InitList) /\ [][ArrayNext \/ ListNext]_vars

\* the channel was made by sync_channel: array (cap > 0) or zero (cap = 0)
SpecSync == (InitArray \/ InitZero) /\ [][ArrayNext \/ ZeroNext]_vars

\* the channel is of any of the three flavors
Init == InitArray \/ InitList \/ InitZero

Next == ArrayNext \/ ListNext \/ ZeroNext

Spec == Init /\ [][Next]_vars

\* acquire: the endpoint of thread t is cloned (fetch_add on its side's count;
\* the abort on a count above isize::MAX is out of reach of MaxThreads
\* endpoints) and the clone is given to thread u
Counter_acquire(t, u) ==
    /\ pc[t] = "idle"
    /\ pc[u] = "absent"
    /\ (t \in Senders) = (u \in Senders)
    /\ Cardinality({x \in Threads : pc[x] # "absent"}) < MaxThreads
    /\ u \in Receivers => Cardinality({x \in Receivers : pc[x] # "absent"}) < MaxReceivers
    /\ counter' = IF t \in Senders
                  THEN [counter EXCEPT !.senders = @ + 1]
                  ELSE [counter EXCEPT !.receivers = @ + 1]
    /\ Goto(u, "idle")
    /\ UNCHANGED <<freed, tvars, cxvars, avars, hvars, nonarray>>

\* the channel as channel() / sync_channel() return it, one Sender and one
\* Receiver, and the clones made of them later
InitCounter ==
    /\ Init
    /\ Cardinality({t \in Senders : pc[t] = "idle"}) = 1
    /\ Cardinality({t \in Receivers : pc[t] = "idle"}) = 1

CounterNext == Next \/ \E t, u \in Threads : Counter_acquire(t, u)

SpecCounter == InitCounter /\ [][CounterNext]_vars

\* a thread that spins on a Backoff of its own, as the calls of a channel do
SpecBackoff == InitArray /\ [][BackoffNext]_vars

\* Scheduling: a thread that can take the next step of the call or of the drop
\* it is in eventually takes it (a runnable thread is scheduled; a parked
\* thread is not runnable until it is unparked or its timeout is reached).
\* Nothing obliges a thread to start a call or to drop its endpoint.
Step(t) == Array_step(t) \/ Array_len_step(t) \/ List_step(t) \/ Zero_step(t)

Fairness == \A t \in Threads : WF_vars(Step(t))

\* the runs under fair scheduling: of at most FairThreads endpoints on the
\* buffered flavors, of at most MaxThreads on the zero-capacity one
FairInit ==
    /\ Init
    /\ Cardinality({t \in Threads : pc[t] = "idle"}) <=
           (IF flavor = "zero" THEN MaxThreads ELSE FairThreads)

FairSpec == FairInit /\ [][Next]_vars /\ Fairness

(* ============================ properties ============================== *)
SendersDropped == \A t \in Senders : pc[t] \in {"gone", "absent"}
ReceiversDropped == \A t \in Receivers : pc[t] \in {"gone", "absent"}

\* the deliveries: (receiver, rank in the receiver's order)
Deliveries == UNION {{<<r, i>> : i \in 1..Len(recvd[r])} : r \in Receivers}
\* how many times a message was returned by recv / try_recv
Times(m) == Cardinality({d \in Deliveries : recvd[d[1]][d[2]].m = m})
Delivered == {recvd[d[1]][d[2]].m : d \in Deliveries}

\* every receiver endpoint that was created has been returned Disconnected
ReceiversSawDisconnected == \A r \in Receivers : pc[r] # "absent" => saw_disc[r] > 0

\* the rank of an array position: laps * cap + index
Array_ord(p) == (p \div one_lap) * cap + (p % mark_bit)

\* messages a read has moved out of its slot
Array_taken ==
    Cardinality(Deliveries) + Cardinality({r \in Receivers : pc[r] \in {"r_notify", "r_notify_locked"}})

\* C1: array channel: once all senders have been dropped and every receiver
\* has observed Disconnected, each message whose send returned Ok has been
\* returned by recv / try_recv exactly once and nothing else has been returned.
C1_ArrayNoLossNoDup ==
    (SendersDropped /\ ReceiversSawDisconnected) =>
        /\ \A d \in Deliveries : Times(recvd[d[1]][d[2]].m) = 1
        /\ Delivered = sent_ok

C1_Witness ==
    /\ SendersDropped
    /\ ReceiversSawDisconnected
    /\ Cardinality(sent_ok) = MaxMsgs
    /\ Cardinality({r \in Receivers : Len(recvd[r]) > 0}) = 2

C6_ArrayBounded ==
    /\ Len(tail_log) - Array_taken <= cap
    /\ Len(tail_log) - Array_taken >= 0
    /\ \A t \in Threads :
          (pc[t] = "len_check" /\ tail = loc[t]) =>
              Array_len_value(loc[t], loc2[t]) \in 0..cap

C6_Witness ==
    /\ Len(tail_log) - Array_taken = cap
    /\ \E t \in Senders : pc[t] = "park"
    /\ \E t \in Threads :
          /\ pc[t] = "len_check"
          /\ tail = loc[t]
          /\ Array_len_value(loc[t], loc2[t]) = cap

Outcomes(n) ==
    {"pending" : t \in {u \in Senders : msg[u] # NoMsg /\ msg[u][2] = n}}
        \cup {"Ok" : m \in {x \in sent_ok : x[2] = n}}
        \cup {e.tag : e \in {x \in sent_err : x.m[2] = n}}

\* the receivers a sender has written message m for, into their packet
Zero_handed(m) ==
    {r \in Receivers :
        /\ packet[r] # Null
        /\ packet[r].ready
        /\ packet[r].msg = m
        /\ select[r] = Operation_hook(r)}

\* C3: zero channel: every send that was started is pending or has exactly one
\* outcome.  A message returned to its sender with Timeout, Disconnected or
\* Full is the sender's own and is never returned by, nor on its way to, a
\* receiver.  A message whose send returned Ok has been returned by exactly
\* one recv / try_recv or is in the packet of exactly one receiver that was
\* selected for it.  A message is returned by at most one receiver, and only
\* if its send returned Ok or is selected to return Ok.
C3_ZeroOneOutcome ==
    flavor = "zero" =>
        /\ \A n \in 1..started : Cardinality(Outcomes(n)) = 1
        /\ \A e \in sent_err :
              /\ e.m # NoMsg
              /\ e.m[1] \in Senders
              /\ Times(e.m) = 0
              /\ Zero_handed(e.m) = {}
        /\ \A m \in sent_ok : Times(m) + Cardinality(Zero_handed(m)) = 1
        /\ \A d \in Deliveries :
              LET m == recvd[d[1]][d[2]].m IN
              /\ Times(m) = 1
              /\ \/ m \in sent_ok
                 \/ \E t \in Senders :
                       /\ msg[t] = m
                       /\ pc[t] \in {"wait", "park", "z_wait_ready"}
                       /\ select[t] = Operation_hook(t)

\* all three outcomes have happened, one of them by a race lost to a receiver
C3_Witness ==
    /\ flavor = "zero"
    /\ \E m \in sent_ok : Times(m) = 1
    /\ \E e \in sent_err : e.tag \in {"Timeout", "Disconnected"}
    /\ \A t \in Threads : pc[t] \in {"idle", "gone", "absent"}

\* C5: list channel: one receiver gets the messages of one sender in the
\* order they were sent; the message returned by the receiver that advanced
\* head from position p is the one reserved at tail position p; reservations
\* and each receiver's deliveries are in position order, also when two
\* positions lie in different blocks.
C5_ListFifo ==
    flavor = "list" =>
        /\ \A r \in Receivers : \A i, j \in 1..Len(recvd[r]) :
              i < j =>
                /\ recvd[r][i].p < recvd[r][j].p
                /\ recvd[r][i].m[1] = recvd[r][j].m[1] => recvd[r][i].m[2] < recvd[r][j].m[2]
        /\ \A d \in Deliveries :
              \E k \in 1..Len(tail_log) :
                tail_log[k] = [p |-> recvd[d[1]][d[2]].p, m |-> recvd[d[1]][d[2]].m]
        /\ \A k, l \in 1..Len(tail_log) : k < l => tail_log[k].p < tail_log[l].p
        /\ \A k \in 1..Len(tail_log) : tail_log[k].p % LAP # BLOCK_CAP

C5_Witness ==
    /\ flavor = "list"
    /\ \E r \in Receivers :
          /\ Len(recvd[r]) = 2
          /\ recvd[r][1].m[1] = recvd[r][2].m[1]
          /\ recvd[r][1].p \div LAP # recvd[r][2].p \div LAP

\* C7 as stated: zero channel: a message whose send / try_send returned Ok has
\* already been taken out of the packet by a receiver (which the receiver does
\* in the step it returns the message in)
C7_OkOnlyAfterTaken ==
    flavor = "zero" => \A m \in sent_ok : Times(m) = 1

\* C7, amended: zero channel: a message whose send / try_send returned Ok has
\* already been taken out of the sender's packet by a receiver (the sender had
\* parked and was paired), or the sender found a parked receiver, selected it
\* and wrote the message with ready into that receiver's packet, where it
\* stays until the receiver takes it.
C7_ZeroRendezvous ==
    flavor = "zero" =>
        \A m \in sent_ok :
            \/ Times(m) = 1 /\ Zero_handed(m) = {}
            \/ /\ Times(m) = 0
               /\ Cardinality(Zero_handed(m)) = 1
               /\ \A r \in Zero_handed(m) : pc[r] \in {"wait", "park", "z_wait_ready"}

\* a send that parked has returned Ok after its message was taken, while the
\* message of another send that returned Ok is still in its receiver's packet
C7_Witness ==
    /\ flavor = "zero"
    /\ \E m \in sent_ok : Times(m) = 1
    /\ \E m \in sent_ok : Times(m) = 0 /\ Zero_handed(m) # {}

\* the positions of a recv / try_recv call in progress
RecvPcs ==
    {"sr_load", "sr_stamp", "sr_cas", "sr_tail", "read", "r_notify", "r_notify_locked",
     "lr_load", "lr_block", "lr_tail", "lr_cas", "lr_wait_next", "lr_next_next",
     "lr_store_block", "lr_store_index", "blk_destroy", "blk_destroy_or",
     "z_read", "z_aborted", "z_disconnected", "z_wait_ready",
     "register", "chk_head", "chk_tail", "chk_disc", "abort", "wait", "park", "unregister"}

\* receivers that have advanced head past a reservation and have yet to return
\* its message
InHand ==
    {r \in Receivers :
        pc[r] \in {"read", "r_notify", "r_notify_locked", "lr_wait_next", "lr_next_next",
                   "lr_store_block", "lr_store_index", "blk_destroy", "blk_destroy_or"}}

\* reservations no receiver has advanced head past (a zero-capacity channel
\* reserves nothing)
Unclaimed ==
    IF flavor = "zero" THEN 0
    ELSE Len(tail_log) - Cardinality(Deliveries) - Cardinality(InHand)

\* the recv of r returns in this step / with a message / with Disconnected
RecvReturns(r) == pc[r] \in RecvPcs /\ pc'[r] \notin RecvPcs
RecvGotMessage(r) == pc'[r] = "idle" /\ Len(recvd'[r]) = Len(recvd[r]) + 1
RecvGotDisconnected(r) == pc'[r] = "idle" /\ saw_disc'[r] = saw_disc[r] + 1 /\ Unclaimed = 0

\* once the last sender has been dropped, a recv in progress eventually returns
RecvReturnsEventually ==
    \A r \in Receivers : (SendersDropped /\ pc[r] \in RecvPcs) ~> (pc[r] \notin RecvPcs)

SendParkPcs == {"register", "chk_tail", "chk_head", "chk_disc", "wait", "park"}

\* a send or try_send is called in this step, and returns Disconnected(msg)
\* from it
SendStarts == started' = started + 1
SendRefused ==
    \E t \in Senders :
        /\ sent_err' = sent_err \cup {[m |-> <<t, started + 1>>, tag |-> "Disconnected"]}
        /\ pc'[t] = "idle"
        /\ pc[t] = "idle"

\* C9 as stated: array or zero channel: once the last receiver has been
\* dropped, every send that is parked or about to park eventually returns
\* Disconnected with its message, and a send / try_send started afterwards
\* returns Disconnected with its message from the call, without parking
C9_AsStated ==
    /\ \A s \in Senders : \A n \in 1..MaxMsgs :
          (flavor \in {"array", "zero"} /\ ReceiversDropped
              /\ pc[s] \in SendParkPcs /\ msg[s] = <<s, n>>)
            ~> ([m |-> <<s, n>>, tag |-> "Disconnected"] \in sent_err)
    /\ [][(flavor \in {"array", "zero"} /\ ReceiversDropped /\ SendStarts)
             => SendRefused]_vars

\* C9, amended: as stated, but for the parked send of a zero channel that a
\* receiver had already paired with (its select is its own operation): that
\* one returns Ok; every other one returns Disconnected with its message
C9_SendersWoken ==
    /\ \A s \in Senders : \A n \in 1..MaxMsgs :
          (flavor \in {"array", "zero"} /\ ReceiversDropped
              /\ pc[s] \in SendParkPcs /\ msg[s] = <<s, n>>
              /\ ~(flavor = "zero" /\ select[s] = Operation_hook(s)))
            ~> ([m |-> <<s, n>>, tag |-> "Disconnected"] \in sent_err)
    /\ [][(flavor \in {"array", "zero"} /\ ReceiversDropped /\ SendStarts)
             => SendRefused]_vars

\* the last receiver is gone and a parked sender has been selected with
\* Disconnected and unparked
C9_Witness ==
    /\ flavor \in {"array", "zero"}
    /\ ReceiversDropped
    /\ \E s \in Senders :
          pc[s] = "park" /\ select[s] = Disconnected /\ park_token[s]

\* the rank of a position among the reservations
Rank(p) == IF flavor = "array" THEN Array_ord(p) ELSE p

Array_full == flavor = "array" /\ head + one_lap = ClearBit(tail, mark_bit)

\* the positions of a send that blocks, from registering to unregistering
SendBlockPcs ==
    {"register", "chk_tail", "chk_head", "chk_disc", "abort", "wait", "park", "unregister"}

\* C11: array channel: a send without deadline that is blocking (anywhere from
\* registering to parked) while a slot is free eventually returns Ok -- or
\* Disconnected once the receivers are gone -- unless the channel is full
\* again (another sender took the slot): no wakeup is lost, wherever the
\* receiver's stamp store and senders.notify() fall between the sender's
\* register, re-check and park.
C11_SenderWoken ==
    \A s \in Senders : \A n \in 1..MaxMsgs :
        (/\ flavor = "array"
         /\ pc[s] \in SendBlockPcs
         /\ msg[s] = <<s, n>>
         /\ ~deadline[s]
         /\ ~Array_full)
        ~> \/ <<s, n>> \in sent_ok
           \/ [m |-> <<s, n>>, tag |-> "Disconnected"] \in sent_err
           \/ Array_full

\* a sender without deadline is parked and not yet selected while a receiver
\* has freed the slot and has still to notify
C11_Witness ==
    /\ flavor = "array"
    /\ ~Array_full
    /\ \E s \in Senders :
          /\ pc[s] = "park" /\ ~deadline[s] /\ select[s] = Waiting /\ ~park_token[s]
          /\ \E r \in Receivers : pc[r] \in {"r_notify", "r_notify_locked"}

\* the buffered channel holds no message: is_empty() on the current head and tail
Buffered_empty ==
    \/ flavor = "array" /\ ClearBit(tail, mark_bit) = head
    \/ flavor = "list" /\ Shr(head.index) = Shr(tail.index)

\* the positions of a recv that blocks, from registering to unregistering
RecvBlockPcs ==
    {"register", "chk_head", "chk_tail", "chk_disc", "abort", "wait", "park", "unregister"}

\* C12: array and list channels: a recv without deadline that is blocking
\* (anywhere from registering to parked) while the channel holds a reservation
\* eventually returns a message, unless the channel is empty again (another
\* receiver took the message): no wakeup is lost, wherever the sender's
\* publication and receivers.notify() fall between the receiver's register,
\* re-check and park.
C12_ReceiverWoken ==
    \A r \in Receivers : \A n \in 0..MaxMsgs :
        (/\ flavor \in {"array", "list"}
         /\ pc[r] \in RecvBlockPcs
         /\ ~deadline[r]
         /\ Len(recvd[r]) = n
         /\ ~Buffered_empty)
        ~> (Len(recvd[r]) > n \/ Buffered_empty)

\* a receiver without deadline is parked and not yet selected while a sender
\* has published its message and has still to notify
C12_Witness ==
    /\ flavor \in {"array", "list"}
    /\ \E r \in Receivers :
          /\ pc[r] = "park" /\ ~deadline[r] /\ select[r] = Waiting /\ ~park_token[r]
          /\ \E s \in Senders : pc[s] \in {"w_notify", "w_notify_locked"}

\* the send of s returns Timeout(e.m) in this step
SendTimesOut(s, e) ==
    /\ e \in sent_err' \ sent_err
    /\ e.tag = "Timeout"
    /\ pc[s] # "idle"
    /\ pc'[s] = "idle"

\* a step in which a send returns Timeout: a send with a deadline returns the
\* message it was called with and leaves head, tail and every slot as they are
TimeoutReturnsOriginal ==
    flavor \in {"array", "zero"} =>
        \A e \in sent_err' \ sent_err : e.tag = "Timeout" =>
            \E s \in Senders :
                /\ SendTimesOut(s, e)
                /\ e.m = msg[s]
                /\ deadline[s]
                /\ UNCHANGED <<head, tail, buffer>>

\* C13: array or zero channel: a message returned in Timeout is the message
\* the send was called with and a send with a deadline returned it; it was
\* never reserved a slot at tail, is in no slot and in no packet, its send did
\* not return Ok too, and no recv has returned it (in any state after the
\* return either); the step that returns Timeout leaves head, tail and every
\* slot (so len() too) as they are.
C13_TimeoutNotDelivered ==
    /\ [](flavor \in {"array", "zero"} =>
            \A e \in sent_err : e.tag = "Timeout" =>
                /\ Times(e.m) = 0
                /\ e.m \notin sent_ok
                /\ \A k \in 1..Len(tail_log) : tail_log[k].m # e.m
                /\ \A i \in DOMAIN buffer : buffer[i].msg # e.m
                /\ \A t \in Threads : packet[t] # Null => packet[t].msg # e.m)
    /\ [][TimeoutReturnsOriginal]_vars

\* a send has returned Timeout on an array channel that is still full, and
\* every message sent with Ok before it has been reserved a slot
C13_Witness ==
    /\ flavor = "array"
    /\ Array_full
    /\ \E e \in sent_err : e.tag = "Timeout"
    /\ Len(tail_log) = cap

\* the positions of a recv that has claimed a message (advanced head past its
\* reservation, or selected a sender and taken its packet) and has yet to
\* return it
RecvClaimPcs ==
    {"read", "r_notify", "r_notify_locked", "lr_wait_next", "lr_next_next",
     "lr_store_block", "lr_store_index", "blk_destroy", "blk_destroy_or", "z_read"}

\* the positions of discard_all_messages, in the drop of the last receiver
DiscardPcs == {"dam_tail", "dam_head", "dam_block", "dam_loop", "dam_store_block", "dam_store_index"}

\* the head index of a buffered channel
HeadIndex == IF flavor = "array" THEN head ELSE IF flavor = "list" THEN head.index ELSE 0

\* the recv of r returns Timeout in this step
RecvTimesOut(r) ==
    /\ pc[r] \in RecvPcs
    /\ pc'[r] = "idle"
    /\ kind[r] = "recv"
    /\ recvd'[r] = recvd[r]
    /\ saw_disc'[r] = saw_disc[r]

\* a recv that returns Timeout was called with a deadline, has claimed nothing
\* (its token is still null, it holds no sender's packet and no message was
\* put into its own) and leaves head, every slot, every block and every other
\* thread's packet as they are; head is advanced only by a recv that goes on to
\* read (or by discard_all_messages), a sender's packet is taken only by a
\* recv that goes on to read it, and a recv that has claimed a message returns
\* that message
TimeoutClaimsNothing ==
    /\ \A r \in Receivers :
          /\ RecvTimesOut(r) =>
                /\ deadline[r]
                /\ pc[r] \notin RecvClaimPcs
                /\ token[r] = NullToken
                /\ UNCHANGED <<head, tail, buffer, blocks>>
                /\ flavor = "zero" =>
                      /\ packet[r].msg = NoMsg
                      /\ \A t \in Threads \ {r} : packet'[t] = packet[t]
                      /\ inner'.senders = inner.senders
          /\ (pc[r] \in RecvClaimPcs /\ pc'[r] \notin RecvClaimPcs) =>
                /\ pc'[r] = "idle"
                /\ Len(recvd'[r]) = Len(recvd[r]) + 1
    /\ HeadIndex' # HeadIndex =>
          \E r \in Receivers :
              \/ pc[r] \notin RecvClaimPcs /\ pc'[r] \in RecvClaimPcs
              \/ pc[r] = "lr_store_index"
              \/ pc[r] \in DiscardPcs

\* C14: in each flavor, a recv that returns Timeout has consumed no message:
\* it did not advance head (array, list) and took no sender's packet (zero);
\* on the array flavor the messages in the channel are at every moment the
\* reservations that no recv has claimed, so a timed-out recv leaves every
\* message to the other recvs.
C14_RecvTimeoutConsumesNothing ==
    /\ [](flavor = "array" =>
            Array_ord(ClearBit(tail, mark_bit)) - Array_ord(head) = Unclaimed)
    /\ [][TimeoutClaimsNothing]_vars

\* zero channel: a recv with a deadline has selected Aborted for itself and is
\* about to return Timeout while a sender that came after is parked with its
\* message in its packet
C14_Witness ==
    /\ flavor = "zero"
    /\ \E r \in Receivers :
          /\ pc[r] = "z_aborted" /\ deadline[r] /\ kind[r] = "recv"
          /\ \E s \in Senders :
                /\ pc[s] \in {"wait", "park"}
                /\ packet[s] # Null
                /\ packet[s].msg = msg[s]

\* the positions of a call on its blocking path: from Context::with to the end
\* of the match on wait_until's value
ParkingPcs ==
    {"register", "chk_head", "chk_tail", "chk_disc", "abort", "wait", "park", "unregister",
     "z_aborted", "z_disconnected", "z_wait_ready"}

\* the entries of the wakers of the channel
WakerEntries ==
    {senders.inner.selectors, receivers.inner.selectors}
        \cup (IF inner = Null THEN {} ELSE {inner.senders.selectors, inner.receivers.selectors})

\* thread t has an entry in a waker
Registered(t) == \E w \in WakerEntries : \E i \in 1..Len(w) : w[i].cx = t

\* C15: in each flavor, a thread that is on the blocking path of a call
\* (Context::with, wait_until, park) or has an entry in a waker is in a send or
\* a recv, never in a try_send or a try_recv, whatever the state of the
\* channel (and on the list flavor it is a receiver).
C15_TryNeverParks ==
    \A t \in Threads :
        (pc[t] \in ParkingPcs \/ Registered(t)) =>
            /\ kind[t] \in {"send", "recv"}
            /\ flavor = "list" => t \in Receivers

\* a try_send has found the array channel full, a try_recv has found it empty
C15_Witness ==
    /\ flavor = "array"
    /\ \/ \E s \in Senders : kind[s] = "try_send" /\ pc[s] = "ss_head" /\ Array_full
       \/ \E r \in Receivers : kind[r] = "try_recv" /\ pc[r] = "sr_tail" /\ Buffered_empty

\* the try_send of s returns e = Full(m) / Disconnected(m) in this step
TrySendFails(s, e) ==
    /\ e \in sent_err' \ sent_err
    /\ kind[s] = "try_send"
    /\ pc[s] # "idle"
    /\ pc'[s] = "idle"

\* the outcomes of try_send on the array flavor, each at the step that decides it
TrySendOutcomes ==
    flavor = "array" =>
        /\ \A e \in sent_err' \ sent_err :
              /\ e.tag = "Full" =>
                    \E s \in Senders :
                        /\ TrySendFails(s, e)
                        /\ e.m = msg[s]
                        /\ Array_full
                        /\ UNCHANGED avars
              /\ e.tag = "Disconnected" =>
                    /\ TestBit(tail, mark_bit)
                    /\ UNCHANGED avars
                    /\ \E s \in Senders :
                          \/ pc[s] = "idle" /\ pc'[s] = "idle" /\ e.m = <<s, started'>>
                          \/ pc[s] # "idle" /\ pc'[s] = "idle" /\ e.m = msg[s]
        /\ (SendStarts /\ TestBit(tail, mark_bit)) => (SendRefused /\ UNCHANGED avars)
        /\ \A s \in Senders :
              (kind[s] = "try_send" /\ pc'[s] = "write") =>
                  (~Array_full /\ ~TestBit(tail, mark_bit))

\* C16: array channel: try_send returns Full(m) only with the channel holding
\* Cap messages, with m the caller's message and head, tail, every slot and
\* the wakers unchanged; it reserves a slot only when the channel is neither
\* full nor disconnected; a send or try_send called on a disconnected channel,
\* full or not, returns Disconnected(m) at once, and every Disconnected(m)
\* carries the caller's message and changes nothing of the channel.
C16_ArrayTrySend == [][TrySendOutcomes]_vars

\* the channel is full, the last receiver has been dropped and a send or
\* try_send made on it has been returned Disconnected
C16_Witness ==
    /\ flavor = "array"
    /\ Array_full
    /\ ReceiversDropped
    /\ Cardinality(sent_ok) = cap
    /\ \E e \in sent_err : e.tag = "Disconnected"

\* the positions of a send on the list flavor: start_send and write
ListSendPcs ==
    {"ls_load", "ls_block", "ls_cas_block", "ls_head_block", "ls_cas", "ls_inst_block",
     "ls_inst_index", "ls_inst_next", "write", "w_notify", "w_notify_locked"}

\* a step of a send on the list flavor: a reservation is made only with the
\* mark of tail.index clear; an error is returned only with the mark set, is
\* Disconnected and carries the caller's message
ListSendStep ==
    flavor = "list" =>
        /\ tail_log' # tail_log => ~TestBit(tail.index, MARK_BIT)
        /\ \A e \in sent_err' \ sent_err :
              /\ e.tag = "Disconnected"
              /\ TestBit(tail.index, MARK_BIT)
              /\ \E s \in Senders :
                    \/ pc[s] = "idle" /\ pc'[s] = "idle" /\ e.m = <<s, started'>>
                    \/ pc[s] # "idle" /\ pc'[s] = "idle" /\ e.m = msg[s]

\* C17: list channel: a sender is never on the blocking path, never has an
\* entry in a waker and never panics (the assert on start_send and the
\* unreachable Timeout arm); the only error a send or try_send returns is
\* Disconnected(msg), with the caller's message and the mark of tail.index
\* set; a message that was reserved a slot (with the mark clear) is never
\* returned in an error, and a send that returned Ok had reserved a slot.
C17_ListSendNeverBlocks ==
    /\ [](flavor = "list" =>
            /\ \A s \in Senders :
                  /\ pc[s] \in ListSendPcs \cup {"idle", "absent", "gone", "disconnect",
                                                 "disc_receivers", "destroy"}
                  /\ ~Registered(s)
            /\ \A e \in sent_err :
                  /\ e.tag = "Disconnected"
                  /\ \A k \in 1..Len(tail_log) : tail_log[k].m # e.m
            /\ \A m \in sent_ok : \E k \in 1..Len(tail_log) : tail_log[k].m = m)
    /\ [][ListSendStep]_vars

\* one send has returned Ok and a later one Disconnected
C17_Witness ==
    /\ flavor = "list"
    /\ sent_ok # {}
    /\ \E e \in sent_err : e.tag = "Disconnected"

\* the entries of waker w that thread t can select: registered by another
\* thread whose context is still Waiting
Selectable(w, t) ==
    {i \in 1..Len(w.selectors) :
        w.selectors[i].cx # t /\ select[w.selectors[i].cx] = Waiting}

\* thread t selects an entry of waker w, which becomes w2, in this step: the
\* entry is removed, its thread's context selects the entry's operation and is
\* unparked, and t's token gets the entry's packet
Selects(w, w2, t) ==
    \E i \in Selectable(w, t) :
        LET e == w.selectors[i] IN
        /\ w2.selectors = RemoveAt(w.selectors, i)
        /\ select'[e.cx] = e.oper
        /\ park_token'[e.cx]
        /\ token'[t].zero = e.packet

\* the immediate outcomes of send / try_send and recv / try_recv on the zero
\* flavor, at the critical section that decides them
ZeroTryOutcomes ==
    flavor = "zero" =>
        /\ \A s \in Senders :
              (pc[s] = "idle" /\ pc'[s] = "z_write") =>
                  (Selects(inner.receivers, inner'.receivers, s)
                      /\ inner'.senders = inner.senders)
        /\ \A r \in Receivers :
              /\ (pc[r] = "idle" /\ pc'[r] = "z_read") =>
                    (Selects(inner.senders, inner'.senders, r)
                        /\ inner'.receivers = inner.receivers)
              /\ (pc[r] = "idle" /\ pc'[r] = "idle" /\ saw_disc'[r] # saw_disc[r]) =>
                    /\ Selectable(inner.senders, r) = {}
                    /\ inner.is_disconnected
                    /\ UNCHANGED <<inner, packet, cxvars>>
        /\ \A e \in sent_err' \ sent_err :
              /\ e.tag = "Full" =>
                    \E s \in Senders :
                        /\ pc[s] = "idle" /\ pc'[s] = "idle"
                        /\ e.m = <<s, started'>>
                        /\ Selectable(inner.receivers, s) = {}
                        /\ ~inner.is_disconnected
                        /\ UNCHANGED <<inner, packet, cxvars>>
              /\ (e.tag = "Disconnected" /\ SendStarts) =>
                    \E s \in Senders :
                        /\ pc[s] = "idle" /\ pc'[s] = "idle"
                        /\ e.m = <<s, started'>>
                        /\ Selectable(inner.receivers, s) = {}
                        /\ inner.is_disconnected
                        /\ UNCHANGED <<inner, packet, cxvars>>
        /\ \A m \in sent_ok' \ sent_ok :
              \E s \in Senders :
                  /\ m = msg[s]
                  /\ \/ pc[s] = "z_write"
                     \/ pc[s] = "z_wait_ready" /\ kind[s] = "send"

HookPcs == {"disconnect", "disc_senders", "disc_receivers"} \cup DiscardPcs

\* the positions of an endpoint whose release has done its fetch_sub
ReleasedPcs == HookPcs \cup {"destroy", "gone", "null_deref"}

\* the endpoints of a side that exist and have not started their release
Live(side) == {t \in side : pc[t] \notin ReleasedPcs \cup {"absent"}}

\* a step of acquire / release: a count that has reached zero stays zero; the
\* release that takes its side's count from 1 to 0, and no other, runs the
\* disconnect hook; only the second destroy.swap(true) frees the allocation,
\* and it does so with every other endpoint gone, so with both hooks returned
CounterStep ==
    /\ counter.senders = 0 => counter'.senders = 0
    /\ counter.receivers = 0 => counter'.receivers = 0
    /\ \A t \in Threads :
          (pc[t] = "idle" /\ pc'[t] \in ReleasedPcs) =>
              LET n == IF t \in Senders THEN counter.senders ELSE counter.receivers
              IN  /\ pc'[t] = (IF n = 1 THEN "disconnect" ELSE "gone")
                  /\ counter' = IF t \in Senders
                                THEN [counter EXCEPT !.senders = n - 1]
                                ELSE [counter EXCEPT !.receivers = n - 1]
    /\ \A t \in Threads :
          (pc[t] \notin HookPcs /\ pc'[t] \in HookPcs) => pc[t] = "idle"
    /\ freed' # freed =>
          /\ freed' = freed + 1
          /\ counter.destroy
          /\ \E t \in Threads :
                /\ pc[t] = "destroy" /\ pc'[t] = "gone"
                /\ \A u \in Threads \ {t} : pc[u] \in {"gone", "absent"}

SlotWriters(i) ==
    {t \in Senders : pc[t] = "write" /\ token[t].array.slot = <<i>>}

\* the receivers between their head CAS for slot i and the stamp store of read
SlotReaders(i) ==
    {t \in Receivers : pc[t] = "read" /\ token[t].array.slot = <<i>>}

\* the message of position p was moved out of its slot by a read
ReadAt(p) ==
    \/ \E r \in Receivers : \E k \in 1..Len(recvd[r]) : recvd[r][k].p = p
    \/ \E r \in Receivers : pc[r] \in {"r_notify", "r_notify_locked"} /\ loc[r] = p

\* C20: array channel: a slot is held by at most one thread, sender or
\* receiver, between that thread's successful CAS and its stamp store.  While
\* a sender holds slot i for position p the slot has the stamp p, its message
\* of the lap before (if any) has been read, and p is the newest position
\* reserved for the slot; while a receiver holds slot i for position h the slot
\* has the stamp h + 1 and the message that the sender of position h wrote.
C20_SlotExclusive ==
    flavor = "array" =>
        \A i \in 0..(cap - 1) :
            /\ Cardinality(SlotWriters(i) \cup SlotReaders(i)) <= 1
            /\ \A s \in SlotWriters(i) :
                  LET p == token[s].array.stamp - 1
                  IN  /\ p % mark_bit = i
                      /\ buffer[i].stamp = p
                      /\ p >= one_lap => ReadAt(p - one_lap)
                      /\ \E k \in 1..Len(tail_log) :
                            /\ tail_log[k] = [p |-> p, m |-> msg[s]]
                            /\ \A j \in 1..Len(tail_log) :
                                  tail_log[j].p % mark_bit = i => tail_log[j].p <= p
            /\ \A r \in SlotReaders(i) :
                  LET h == token[r].array.stamp - one_lap
                  IN  /\ h % mark_bit = i
                      /\ buffer[i].stamp = h + 1
                      /\ ~ReadAt(h)
                      /\ [p |-> h, m |-> buffer[i].msg] \in
                            {tail_log[k] : k \in 1..Len(tail_log)}

\* a receiver holds a slot in the second lap while another receiver still
\* carries the head position of the first lap into its CAS
C20_Witness ==
    /\ flavor = "array"
    /\ \E r, u \in Receivers :
          /\ r # u
          /\ r \in SlotReaders(0)
          /\ token[r].array.stamp - one_lap >= one_lap
          /\ pc[u] = "sr_cas" /\ loc[u] < one_lap /\ loc[u] % mark_bit = 0

\* the positions of a thread that is in no send and no recv
QuietPcs ==
    {"idle", "absent", "gone", "disconnect", "disc_senders", "disc_receivers",
     "destroy", "len_head", "len_tail", "len_check"}

\* no send and no recv is in progress on the array channel
ArrayQuiescent == flavor = "array" /\ \A t \in Threads : pc[t] \in QuietPcs

\* the lap component of head
head_lap == head - (head % one_lap)

\* the first position at or after head whose index is i
NextPositionOf(i) ==
    IF i >= head % mark_bit THEN head_lap + i ELSE head_lap + one_lap + i

\* C21 as the specification states it: in a quiescent state every slot i has
\* the stamp head_lap + i or head_lap + i + 1.
C21_AsStated ==
    ArrayQuiescent =>
        \A i \in 0..(cap - 1) : buffer[i].stamp \in {head_lap + i, head_lap + i + 1}

\* C21: array channel, quiescent state: with p the first position at or after
\* head whose index is i (head_lap + i for the slots from head's index on,
\* head_lap + one_lap + i for the slots head has passed in its lap), the stamp
\* of slot i is p (free for a writer) or p + 1 (full, awaiting a reader), and it
\* is p + 1 exactly when p lies before tail.
C21_QuiescentStamps ==
    ArrayQuiescent =>
        \A i \in 0..(cap - 1) :
            LET p == NextPositionOf(i)
            IN  buffer[i].stamp = (IF p < ClearBit(tail, mark_bit) THEN p + 1 ELSE p)

\* quiescent, head in the middle of its lap: the slot it has passed is free for
\* the next lap and the slot at head is full
C21_Witness ==
    /\ ArrayQuiescent
    /\ cap = 2
    /\ head % mark_bit = 1
    /\ buffer[0].stamp = one_lap
    /\ buffer[1].stamp = head + 1

\* the value a reservation at position p leaves in tail (resp. head)
ReservedNext(p) ==
    LET index == p % mark_bit
        lap == p - (p % one_lap)
    IN  IF index + 1 < cap THEN p + 1 ELSE lap + one_lap

\* a step of the array channel: a successful reservation of start_send moves
\* tail, whose mark bit is clear, to ReservedNext(tail) and prepares the stamp
\* tail + 1; write stores that stamp in the slot of tail's index; a successful
\* reservation of start_recv moves head to ReservedNext(head) and prepares the
\* stamp head + one_lap; read stores that stamp in the slot of head's index;
\* nothing else changes a prepared token, a stamp, head or tail's position
StampStep ==
    /\ \A s \in Senders :
          /\ (pc[s] = "ss_cas" /\ pc'[s] = "write") =>
                /\ ~TestBit(tail, mark_bit)
                /\ tail' = ReservedNext(tail)
                /\ token'[s].array = [slot |-> <<tail % mark_bit>>, stamp |-> tail + 1]
          /\ (pc[s] = "write" /\ pc'[s] = "write") => token'[s] = token[s]
          /\ (pc[s] = "write" /\ pc'[s] # "write") =>
                LET i == (token[s].array.stamp - 1) % mark_bit
                IN  /\ token[s].array.slot = <<i>>
                    /\ buffer'[i].stamp = token[s].array.stamp
                    /\ \A j \in (0..(cap - 1)) \ {i} : buffer'[j] = buffer[j]
    /\ \A r \in Receivers :
          /\ (pc[r] = "sr_cas" /\ pc'[r] = "read") =>
                /\ head' = ReservedNext(head)
                /\ token'[r].array = [slot |-> <<head % mark_bit>>, stamp |-> head + one_lap]
          /\ (pc[r] = "read" /\ pc'[r] = "read") => token'[r] = token[r]
          /\ (pc[r] = "read" /\ pc'[r] # "read") =>
                LET i == (token[r].array.stamp - one_lap) % mark_bit
                IN  /\ token[r].array.slot = <<i>>
                    /\ buffer'[i].stamp = token[r].array.stamp
                    /\ \A j \in (0..(cap - 1)) \ {i} : buffer'[j] = buffer[j]
    /\ ClearBit(tail', mark_bit) # ClearBit(tail, mark_bit) =>
          \E s \in Senders : pc[s] = "ss_cas" /\ pc'[s] = "write"
    /\ head' # head => \E r \in Receivers : pc[r] = "sr_cas" /\ pc'[r] = "read"
    /\ buffer' # buffer => \E t \in Threads : pc[t] \in {"write", "read"} /\ pc'[t] # pc[t]

\* C22: array channel: a send that reserved the tail value p (mark bit clear)
\* leaves the stamp p + 1 in its slot when write completes, a recv that reserved
\* the head value h leaves h + one_lap when read completes; a reservation moves
\* tail (resp. head) to p + 1 when index + 1 < cap and to lap + one_lap, index
\* 0, otherwise; the index of head and of tail is always below cap.
C22_StampTransitions ==
    /\ [](flavor = "array" => /\ head % mark_bit < cap
                              /\ tail % mark_bit < cap
                              /\ ~TestBit(head, mark_bit))
    /\ [][flavor = "array" => StampStep]_vars

\* capacity 2, two messages sent and received: both reservations of each side
\* (the one inside the lap, the one that wraps) and both stamp stores have acted
C22_Witness ==
    /\ flavor = "array" /\ cap = 2
    /\ head = one_lap /\ tail = one_lap
    /\ buffer[0].stamp = one_lap
    /\ buffer[1].stamp = one_lap + 1

\* is_disconnected(): the mark bit of tail (array) or of tail.index (list)
Marked ==
    CASE flavor = "array" -> TestBit(tail, mark_bit)
      [] flavor = "list" -> TestBit(tail.index, MARK_BIT)
      [] OTHER -> inner.is_disconnected

\* the positions of a disconnect call that found the mark bit clear: it
\* disconnects the wakers (list, receiver side: it discards all messages)
FirstDisconnectPcs == {"disc_senders", "disc_receivers"} \cup DiscardPcs

\* a step of an array or list channel: it does not clear the mark bit; a
\* disconnect call sets it, and takes the branch of the first call exactly
\* when it found the bit clear; that branch is entered in no other way
DisconnectStep ==
    /\ Marked => Marked'
    /\ \A t \in Threads :
          /\ (pc[t] = "disconnect" /\ pc'[t] # "disconnect") =>
                /\ Marked'
                /\ pc'[t] \in FirstDisconnectPcs <=> ~Marked
                /\ Marked => pc'[t] = "destroy"
          /\ (pc'[t] \in FirstDisconnectPcs /\ pc[t] \notin FirstDisconnectPcs) =>
                pc[t] = "disconnect"
    /\ (\E t \in Threads : select'[t] = Disconnected /\ select[t] # Disconnected) =>
          \E t \in Threads : pc[t] \in {"disc_senders", "disc_receivers"} /\ pc'[t] # pc[t]

\* C23: array and list channel: no step clears the mark bit of tail (resp.
\* tail.index), so is_disconnected() never goes from true back to false; a
\* disconnect call returns true (and disconnects the wakers) exactly when its
\* fetch_or found the bit clear, and at most one call is ever in that branch.
C23_DisconnectOnce ==
    /\ [](flavor \in {"array", "list"} =>
            /\ Cardinality({t \in Threads : pc[t] \in FirstDisconnectPcs}) <= 1
            /\ (\E t \in Threads : pc[t] \in FirstDisconnectPcs) => Marked)
    /\ [][(flavor \in {"array", "list"}) => DisconnectStep]_vars

\* array channel, two disconnect calls: the first is still disconnecting the
\* wakers, the second has returned false
C23_Witness ==
    /\ flavor = "array"
    /\ \E s \in Senders, r \in Receivers :
          \/ pc[s] = "disc_senders" /\ pc[r] = "destroy"
          \/ pc[r] = "disc_senders" /\ pc[s] = "destroy"

\* the messages reserved by a tail CAS and not yet reserved by a head CAS
ArrayHeld ==
    Len(tail_log) - Array_taken - Cardinality({r \in Receivers : pc[r] = "read"})

\* the step in which start_send returns false to sender s: try_send returns
\* Full, send returns Timeout, spins on its Backoff or goes on to block
StartSendFalse(s) ==
    /\ pc[s] = "ss_head"
    /\ \/ pc'[s] \in {"idle", "register"}
       \/ backoff'[s] > backoff[s]

\* whenever start_send returns false the channel is full at that instant
FullIsReal ==
    \A s \in Senders :
        StartSendFalse(s) =>
            /\ head + one_lap = ClearBit(tail, mark_bit)
            /\ ClearBit(tail, mark_bit) = loc[s]
            /\ ArrayHeld = cap

\* C24: array channel: start_send returns false (try_send returns Full) only
\* at an instant at which head + one_lap equals tail, so when the channel holds
\* cap messages reserved and not received; the tail value it loaded is then
\* still the current one.  A sender holding a loaded tail value never finds
\* head more than one lap behind it.
C24_NoSpuriousFull ==
    /\ [](flavor = "array" =>
            \A s \in Senders :
                pc[s] \in {"ss_stamp", "ss_cas", "ss_head"} =>
                    Array_ord(loc[s]) <= Array_ord(head) + cap)
    /\ [][flavor = "array" => FullIsReal]_vars

\* a try_send has returned Full after a message had been received: the tail and
\* the head the call compared were those of the second lap
C24_Witness ==
    /\ flavor = "array"
    /\ \E e \in sent_err : e.tag = "Full"
    /\ \E r \in Receivers : Len(recvd[r]) > 0

\* thread t is about to return from len, which ran in a quiescent channel: the
\* tail and the head it loaded are the current ones
LenReturns(t) ==
    /\ ArrayQuiescent
    /\ pc[t] = "len_check"
    /\ tail = loc[t]
    /\ head = loc2[t]

\* C25: array channel: a len call that ran in a quiescent state returns the
\* number of messages sent with Ok minus the number received, whatever the
\* positions of head and tail and whether or not tail carries the mark bit.
C25_LenIsCount ==
    \A t \in Threads :
        LenReturns(t) =>
            Array_len_value(loc[t], loc2[t]) = Cardinality(sent_ok) - Cardinality(Deliveries)

\* len is about to return cap: the indices of head and tail coincide, tail is
\* a lap ahead of head and carries the mark bit
C25_Witness ==
    \E t \in Threads :
        /\ LenReturns(t)
        /\ cap = 2
        /\ TestBit(tail, mark_bit)
        /\ head % mark_bit = tail % mark_bit
        /\ ClearBit(tail, mark_bit) # head
        /\ Cardinality(sent_ok) - Cardinality(Deliveries) = cap

\* the blocks of the heap
BlockIds == 1..Len(blocks)

\* the receivers running Block::destroy on block b
Destroyers(b) ==
    {r \in Receivers : pc[r] \in {"blk_destroy", "blk_destroy_or"} /\ token[r].list.block = <<b>>}

\* the slots of block b that Block::destroy has marked DESTROY and whose reader
\* has not set READ yet: that reader will go on with Block::destroy
Handed(b) ==
    {j \in 0..(BLOCK_CAP - 2) :
        /\ TestBit(blocks[b].slots[j].state, DESTROY)
        /\ ~TestBit(blocks[b].slots[j].state, READ)}

\* the receivers about to access a slot (or the next pointer) of block b
SlotUsers(b) ==
    {r \in Receivers :
        \/ pc[r] \in {"read", "blk_destroy", "blk_destroy_or"} /\ token[r].list.block = <<b>>
        \/ pc[r] = "lr_wait_next" /\ block[r] = <<b>>}

\* the message of the last slot of block b has been taken by its reader
LastSlotRead(b) ==
    \/ blocks[b].slots[BLOCK_CAP - 1].msg \in Delivered
    \/ \E r \in Destroyers(b) : msg[r] = blocks[b].slots[BLOCK_CAP - 1].msg

\* a step of the list channel's readers: a reader frees block b only at the end
\* of Block::destroy, when every slot before the last has READ and the last
\* has been read; Block::destroy stops at slot i exactly when it finds it
\* without READ after marking it DESTROY; a reader starts Block::destroy at
\* the last slot with index 0, and at slot i with index i + 1 exactly when its
\* fetch_or(READ) finds DESTROY
ReclaimStep ==
    /\ \A b \in BlockIds : \A r \in Receivers :
          (pc[r] \in {"read", "blk_destroy", "blk_destroy_or"} /\ pc'[r] # pc[r]
           /\ blocks'[b].freed # blocks[b].freed) =>
              /\ r \in Destroyers(b) /\ pc[r] = "blk_destroy" /\ pc'[r] = "idle"
              /\ blocks[b].freed = 0 /\ blocks'[b].freed = 1
              /\ \A j \in 0..(BLOCK_CAP - 2) : TestBit(blocks[b].slots[j].state, READ)
              /\ TestBit(blocks[b].slots[BLOCK_CAP - 1].state, WRITE)
              /\ LastSlotRead(b)
    /\ \A r \in Receivers :
          /\ (pc[r] = "blk_destroy_or" /\ pc'[r] = "idle") =>
                LET s == blocks'[token[r].list.block[1]].slots[loc2[r]].state
                IN  TestBit(s, DESTROY) /\ ~TestBit(s, READ)
          /\ (pc[r] = "blk_destroy_or" /\ pc'[r] = "blk_destroy") =>
                /\ TestBit(blocks[token[r].list.block[1]].slots[loc2[r]].state, READ)
                /\ loc2'[r] = loc2[r] + 1
          /\ (pc[r] = "read" /\ pc'[r] # "read") =>
                LET o == token[r].list.offset
                    s == blocks[token[r].list.block[1]].slots[o].state
                IN  IF o + 1 = BLOCK_CAP
                    THEN pc'[r] = "blk_destroy" /\ loc2'[r] = 0
                    ELSE IF TestBit(s, DESTROY)
                    THEN pc'[r] = "blk_destroy" /\ loc2'[r] = o + 1
                    ELSE pc'[r] = "idle"

\* C26: list channel: no block is freed twice; a receiver about to access a
\* slot of a block finds the block not freed; for every block at most one
\* party holds the destroy duty, a receiver running Block::destroy or a slot
\* marked DESTROY whose reader has yet to set READ; and the steps of read and
\* Block::destroy are those of ReclaimStep.
C26_BlockReclamation ==
    /\ [](flavor = "list" =>
            \A b \in BlockIds :
                /\ blocks[b].freed <= 1
                /\ SlotUsers(b) # {} => blocks[b].freed = 0
                /\ Cardinality(Destroyers(b)) + Cardinality(Handed(b)) <= 1)
    /\ [][flavor = "list" => ReclaimStep]_vars

\* a block has been freed by the reader of its last but one slot, to which the
\* reader of the last slot had handed the destroy duty
C26_Witness ==
    /\ flavor = "list"
    /\ \E b \in BlockIds :
          /\ blocks[b].freed = 1
          /\ TestBit(blocks[b].slots[BLOCK_CAP - 2].state, DESTROY)
          /\ TestBit(blocks[b].slots[BLOCK_CAP - 2].state, READ)
          /\ \A r \in Receivers : pc[r] = "idle" /\ Len(recvd[r]) = 1

\* the Counter's allocation, and with it the Channel, has been dropped
ChannelDropped == freed = 1

\* C27 as the specification states it: list channel: no block is freed twice,
\* and once disconnect_receivers and Channel::drop have run every block that a
\* sender allocated has been freed exactly once: none is leaked.
C27_AsStated ==
    flavor = "list" =>
        /\ \A b \in BlockIds : blocks[b].freed <= 1
        /\ ChannelDropped => \A b \in BlockIds : blocks[b].freed = 1

\* C28 as the specification states it: list channel: whenever
\* discard_all_messages is about to dereference its block pointer, with its
\* head position different from its tail position, the pointer is non-null and
\* the block has not been freed.
C28_AsStated ==
    flavor = "list" =>
        \A t \in Threads :
            (pc[t] = "dam_loop" /\ Shr(loc2[t]) # Shr(loc[t])) =>
                /\ block[t] # Null
                /\ blocks[block[t][1]].freed = 0

\* C29: list channel: in every reachable state the position of tail is at or
\* after the position of head: tail.index >> SHIFT >= head.index >> SHIFT.
C29_ListPositions ==
    flavor = "list" => Shr(tail.index) >= Shr(head.index)

\* head has been moved past the end of the first block into the next one, up
\* to tail
C29_Witness ==
    /\ flavor = "list"
    /\ Shr(head.index) >= LAP
    /\ Shr(head.index) = Shr(tail.index)
    /\ head.block # Null

\* the number of the block a list position lies in
BlockOf(index) == Shr(index) \div LAP

\* a successful head CAS of start_recv takes a position that a sender's tail
\* CAS has reserved, whether or not the emptiness check was skipped
ReservesSent ==
    \A r \in Receivers :
        (pc[r] = "lr_cas" /\ pc'[r] \in {"read", "lr_wait_next"}) =>
            /\ Shr(loc[r]) < Shr(tail.index)
            /\ \E i \in 1..Len(tail_log) : tail_log[i].p = Shr(loc[r])

ListQuiescent ==
    /\ flavor = "list"
    /\ \A t \in Threads :
          pc[t] \in {"idle", "absent", "gone", "disconnect", "disc_receivers", "destroy",
                     "len_head", "len_tail", "len_check"}

\* thread t is about to return from len, which ran in a quiescent list channel:
\* the tail index and the head index it loaded are the current ones
ListLenReturns(t) ==
    /\ ListQuiescent
    /\ pc[t] = "len_check"
    /\ tail.index = loc[t]
    /\ head.index = loc2[t]

\* the last receiver has disconnected the channel and discard_all_messages has
\* returned
ReceiversDisconnected ==
    /\ flavor = "list"
    /\ TestBit(tail.index, MARK_BIT)
    /\ \A r \in Receivers : pc[r] \in {"destroy", "gone", "absent"}

\* C31 as stated: list channel: a len call that ran in a quiescent state
\* returns the number of messages sent with Ok minus the number received.
C31_AsStated ==
    \A t \in Threads :
        ListLenReturns(t) =>
            List_len_value(loc[t], loc2[t]) = Cardinality(sent_ok) - Cardinality(Deliveries)

\* C31: list channel: a len call that ran in a quiescent state returns the
\* number of messages sent with Ok minus the number received, whatever the
\* blocks head and tail are in and whatever their mark bits, as long as a
\* receiver is left; once the last receiver has disconnected the channel and
\* discarded its messages, len returns 0.
C31_ListLenIsCount ==
    \A t \in Threads :
        ListLenReturns(t) =>
            List_len_value(loc[t], loc2[t]) =
                (IF ReceiversDisconnected THEN 0
                 ELSE Cardinality(sent_ok) - Cardinality(Deliveries))

\* len is about to return 1 with head in the first block and tail in the
\* second, head carrying its mark bit
C31_Witness ==
    \E t \in Threads :
        /\ ListLenReturns(t)
        /\ Shr(tail.index) \div LAP > Shr(head.index) \div LAP
        /\ TestBit(head.index, MARK_BIT)
        /\ Cardinality(sent_ok) - Cardinality(Deliveries) = 1

\* the positions of a thread inside Context::wait_until (at "abort" its own
\* try_select(Aborted) of the readiness re-check comes first)
WaitPcs == {"abort", "wait", "park"}

\* thread t returns from wait_until in this step
WaitReturns(t) == pc[t] \in WaitPcs /\ pc'[t] \notin WaitPcs

\* the arms of the match on the value wait_until returned: Aborted |
\* Disconnected, and Operation(_)
AbortedArmPcs == {"unregister", "z_aborted", "z_disconnected"}
OperationArmPcs == {"ss_load", "sr_load", "lr_load", "z_wait_ready"}

\* one step of the handshake on the context of every thread
HandshakeStep ==
    \A t \in Threads :
        \* a selected context stays as it is until its own thread leaves
        \* Context::with or resets it for its next blocking operation
        /\ select[t] # Waiting =>
              \/ select'[t] = select[t]
              \/ select'[t] = Waiting /\ pc'[t] # pc[t]
        \* select leaves Waiting for Aborted only by the thread's own try_select
        /\ (select[t] = Waiting /\ select'[t] = Aborted) => WaitReturns(t)
        \* wait_until returns the value that won, never Waiting: the value
        \* select has when the call returns, set before by a notifier or a
        \* disconnector or in this step by the thread's own try_select(Aborted)
        /\ WaitReturns(t) =>
              /\ pc'[t] \in AbortedArmPcs \cup OperationArmPcs
              /\ pc'[t] \in AbortedArmPcs =>
                    /\ select'[t] \in {Aborted, Disconnected}
                    /\ select[t] \in {Waiting, select'[t]}
                    /\ pc'[t] = "z_aborted" => select'[t] = Aborted
                    /\ pc'[t] = "z_disconnected" => select'[t] = Disconnected
              /\ pc'[t] \in OperationArmPcs => select[t] = Operation_hook(t)

\* C32: for one blocking operation exactly one try_select on the thread's
\* context succeeds: once select has left Waiting it keeps its value until the
\* thread's next reset, whoever tries to select it (a notifier, a
\* disconnector, the thread's own readiness re-check or deadline expiry), and
\* wait_until returns exactly that value, never Waiting.
C32_OneWinner == [][HandshakeStep]_vars

\* a notifier has selected the context of a thread whose own
\* try_select(Aborted) is still to come, and will fail
C32_Witness ==
    \E t \in Threads : pc[t] = "abort" /\ select[t] = Operation_hook(t)

\* the selector list of the waker a blocking operation of thread t registers
\* with
OwnSelectors(t) ==
    IF flavor = "zero"
    THEN (IF t \in Senders THEN inner.senders.selectors ELSE inner.receivers.selectors)
    ELSE (IF t \in Senders THEN senders.inner.selectors ELSE receivers.inner.selectors)

\* how many entries list w holds for the operation or the context of thread t
EntriesOf(w, t) ==
    Cardinality({i \in 1..Len(w) : w[i].oper = Operation_hook(t) \/ w[i].cx = t})

\* the selector lists of all the wakers of the channel, one after the other
AllSelectors ==
    senders.inner.selectors \o receivers.inner.selectors
        \o (IF inner = Null THEN << >> ELSE inner.senders.selectors \o inner.receivers.selectors)

\* the entries of thread t in all the wakers of the channel
EntryCount(t) == EntriesOf(AllSelectors, t)

\* the positions between register and the return of wait_until
BlockedPcs == {"chk_tail", "chk_head", "chk_disc"} \cup WaitPcs

\* C33: in every flavor the entry of a blocking operation is in its waker when
\* wait_until returns Aborted or Disconnected (unregister finds it, the unwrap
\* does not panic) and has been removed by the notifier when it returns
\* Operation(_); a thread that is in no blocking operation has no entry in any
\* waker, and its context is not selected: a context is only ever selected
\* while its thread is blocked.
C33_EntriesMatch ==
    \A t \in Threads :
        /\ EntryCount(t) = EntriesOf(OwnSelectors(t), t)
        /\ EntryCount(t) <= 1
        \* while blocked: the entry is there until a notifier selects the context
        /\ pc[t] \in BlockedPcs =>
              (EntryCount(t) = 0 <=> select[t] = Operation_hook(t))
        \* wait_until returned Aborted | Disconnected: unregister finds the entry
        /\ pc[t] \in AbortedArmPcs =>
              EntryCount(t) = 1 /\ select[t] \in {Aborted, Disconnected}
        \* wait_until returned Operation(_): the notifier has removed it
        /\ pc[t] = "z_wait_ready" => EntryCount(t) = 0
        \* outside a blocking operation the thread has no entry and is not
        \* selected
        /\ pc[t] \notin ParkingPcs => EntryCount(t) = 0
        /\ pc[t] \notin (ParkingPcs \ {"register"}) => select[t] = Waiting
        /\ pc[t] # "panicked"

\* a blocked thread has been selected Disconnected and is about to unregister
\* the entry the disconnect left in place
C33_Witness ==
    \E t \in Threads :
        /\ pc[t] \in AbortedArmPcs
        /\ select[t] = Disconnected
        /\ EntryCount(t) = 1

\* C34 as stated: on the array and the list channel a thread is inside
\* wait_until only after the Backoff of its call has been completed.
C34_AsStated ==
    flavor \in {"array", "list"} =>
        \A t \in Threads : pc[t] \in WaitPcs => backoff[t] > SPIN_LIMIT

\* thread t goes on to block in this step: it enters Context::with
Suspends(t) == pc[t] # "register" /\ pc'[t] = "register"

\* one step towards a park on the array or the list channel
SuspendStep ==
    \A t \in Threads :
        \* Context::with is entered from a send or a recv (never a try_send or a
        \* try_recv) whose start_send / start_recv has just returned false
        /\ Suspends(t) =>
              /\ kind[t] \in {"send", "recv"}
              /\ (flavor = "array" /\ t \in Senders) =>
                    /\ pc[t] = "ss_head"
                    /\ head + one_lap = loc[t]
                    /\ backoff[t] > SPIN_LIMIT
              /\ (flavor = "array" /\ t \in Receivers) =>
                    /\ pc[t] = "sr_tail"
                    /\ tail = loc[t]
              /\ flavor = "list" =>
                    /\ t \in Receivers
                    /\ pc[t] = "lr_tail"
                    /\ Shr(tail.index) = Shr(loc[t])
                    /\ ~TestBit(tail.index, MARK_BIT)
        \* wait_until is entered only from there, after the readiness re-check
        /\ (pc[t] \notin WaitPcs /\ pc'[t] \in WaitPcs) =>
              pc[t] \in {"chk_head", "chk_tail", "chk_disc"}
        \* and a sender inside wait_until has completed its Backoff
        /\ (pc'[t] \in WaitPcs /\ t \in Senders) => backoff'[t] > SPIN_LIMIT

\* C34: on the array and the list channel a thread parks only inside a send or
\* a recv whose reservation attempt has just failed as not ready (channel full
\* for send, empty and not disconnected for recv); a send has then completed
\* its Backoff (step > 6); a recv has no Backoff of its own and goes on to
\* block after one failed reservation.
C34_SuspensionPoints == [][(flavor \in {"array", "list"}) => SuspendStep]_vars

\* a sender is parked on the full array channel with its Backoff completed and
\* a receiver is parked on an empty channel without having spun
C34_Witness ==
    /\ flavor = "array"
    /\ \E s \in Senders : pc[s] = "park" /\ backoff[s] = SPIN_LIMIT + 1
    /\ \E r \in Receivers : pc[r] = "park" /\ backoff[r] = 0

\* the (select, packet, park token) of thread u are left as they are
CxUnchanged(u) ==
    /\ select'[u] = select[u]
    /\ cx_packet'[u] = cx_packet[u]
    /\ park_token'[u] = park_token[u]

\* what a call of Waker::try_select by thread t does to waker w, which becomes
\* w2, and to the contexts of the other threads
TrySelectEffect(w, w2, t) ==
    LET Q == Selectable(w, t) IN
    IF Q = {}
    THEN /\ w2.selectors = w.selectors
         /\ \A u \in Threads \ {t} : CxUnchanged(u)
    ELSE LET i == Min(Q)
             e == w.selectors[i]
         IN  /\ e.cx # t
             /\ w2.selectors = RemoveAt(w.selectors, i)
             /\ select'[e.cx] = e.oper
             /\ cx_packet'[e.cx] = e.packet
             /\ park_token'[e.cx]
             /\ \A u \in Threads \ {t, e.cx} : CxUnchanged(u)
             /\ flavor = "zero" => token'[t].zero = e.packet

\* the steps that call Waker::try_select: the locked part of SyncWaker::notify
\* after write and after read (array, list), the critical section of send and
\* of recv (zero)
TrySelectStep ==
    \A t \in Threads :
        /\ (flavor \in {"array", "list"} /\ pc[t] = "w_notify_locked" /\ pc'[t] # pc[t]) =>
              IF receivers.is_empty THEN UNCHANGED <<receivers, cxvars>>
              ELSE TrySelectEffect(receivers.inner, receivers'.inner, t) /\ CxUnchanged(t)
        /\ (flavor = "array" /\ pc[t] = "r_notify_locked" /\ pc'[t] # pc[t]) =>
              IF senders.is_empty THEN UNCHANGED <<senders, cxvars>>
              ELSE TrySelectEffect(senders.inner, senders'.inner, t) /\ CxUnchanged(t)
        /\ (flavor = "zero" /\ t \in Senders /\ pc[t] = "idle" /\ started' # started
                /\ (pc'[t] # "idle" \/ \E e \in sent_err' \ sent_err : e.m[1] = t)) =>
              TrySelectEffect(inner.receivers, inner'.receivers, t)
        /\ (flavor = "zero" /\ t \in Receivers /\ pc[t] = "idle"
                /\ pc'[t] \in {"z_read", "wait"}) =>
              TrySelectEffect(inner.senders, inner'.senders, t)

\* C35: a call of Waker::try_select selects at most one entry: the first in
\* registration order that belongs to another thread than the caller and whose
\* context is still Waiting; that context becomes Operation(oper) of the entry,
\* receives the entry's packet and is unparked, and the entry is removed and
\* returned; every other entry and context stays as it is; with no such entry
\* nothing changes.  The caller's own entry is never selected.
C35_TrySelectRule == [][TrySelectStep]_vars

\* zero channel: a receiver can call try_select on a waker with two entries:
\* the first has aborted already, the second is still waiting and will be
\* selected
C35_Witness ==
    \E t \in Receivers :
        /\ flavor = "zero"
        /\ pc[t] = "idle"
        /\ Len(inner.senders.selectors) = 2
        /\ Selectable(inner.senders, t) = {2}

\* thread u has an entry in one of the selector lists of L
RegisteredIn(L, u) == \E w \in L : \E i \in 1..Len(w) : w[i].cx = u

\* what Waker::disconnect on the wakers with selector lists L does to the
\* contexts: registered and Waiting: Disconnected and unparked; all others as
\* they are
DisconnectEffect(L) ==
    \A u \in Threads :
        IF RegisteredIn(L, u) /\ select[u] = Waiting
        THEN /\ select'[u] = Disconnected
             /\ park_token'[u]
             /\ cx_packet'[u] = cx_packet[u]
        ELSE CxUnchanged(u)

\* the steps that call Waker::disconnect, and the removal of the entries they
\* leave behind
WakerDisconnectStep ==
    \A t \in Threads :
        /\ (flavor = "array" /\ pc[t] = "disc_senders" /\ pc'[t] # pc[t]) =>
              /\ senders'.inner.selectors = senders.inner.selectors
              /\ receivers' = receivers
              /\ DisconnectEffect({senders.inner.selectors})
        /\ (flavor \in {"array", "list"} /\ pc[t] = "disc_receivers" /\ pc'[t] # pc[t]) =>
              /\ receivers'.inner.selectors = receivers.inner.selectors
              /\ senders' = senders
              /\ DisconnectEffect({receivers.inner.selectors})
        /\ (flavor = "zero" /\ pc[t] = "disconnect" /\ pc'[t] # pc[t]) =>
              /\ inner'.senders.selectors = inner.senders.selectors
              /\ inner'.receivers.selectors = inner.receivers.selectors
              /\ IF inner.is_disconnected THEN UNCHANGED cxvars
                 ELSE DisconnectEffect({inner.senders.selectors, inner.receivers.selectors})
        \* the entry of a context selected Disconnected goes only when its own
        \* thread unregisters it
        /\ (select[t] = Disconnected /\ EntryCount(t) = 1 /\ EntryCount(t)' = 0) =>
              pc[t] \in AbortedArmPcs /\ pc'[t] # pc[t]
        /\ select[t] = Disconnected => EntryCount(t) = 1

\* C36: Waker::disconnect selects every registered context that is still
\* Waiting with Disconnected and unparks it, leaves the contexts that were
\* selected already (Aborted, Operation) and every other context unchanged,
\* and removes no entry: the selector list is the same after the call, and
\* each woken thread removes its own entry when it unregisters.
C36_DisconnectFrame == [][WakerDisconnectStep]_vars

\* a disconnect has just woken one registered thread with Disconnected and
\* left alone another that had aborted already; both entries are still there
C36_Witness ==
    \E t, u1, u2 \in Threads :
        /\ pc[t] = "destroy"
        /\ select[u1] = Disconnected
        /\ select[u2] = Aborted
        /\ EntryCount(u1) = 1
        /\ EntryCount(u2) = 1
        /\ RegisteredIn({OwnSelectors(u1)}, u2)

\* is_empty of a SyncWaker says whether its registry is empty
FlagMatches(sw) ==
    sw.is_empty <=> (Len(sw.inner.selectors) = 0 /\ Len(sw.inner.observers) = 0)

FlagsMatch == FlagMatches(senders) /\ FlagMatches(receivers)

\* notify() finds is_empty set: it returns at once and changes nothing
NotifyEmptyStep ==
    \A t \in Threads :
        /\ (pc[t] = "w_notify" /\ pc'[t] # pc[t] /\ receivers.is_empty) =>
              /\ pc'[t] = "idle"
              /\ UNCHANGED <<senders, receivers, cxvars>>
        /\ (pc[t] = "r_notify" /\ pc'[t] # pc[t] /\ senders.is_empty) =>
              /\ pc'[t] = "idle"
              /\ UNCHANGED <<senders, receivers, cxvars>>
        \* and only a set flag lets it return without the mutex
        /\ (pc[t] = "w_notify" /\ pc'[t] # pc[t] /\ ~receivers.is_empty) =>
              pc'[t] = "w_notify_locked"
        /\ (pc[t] = "r_notify" /\ pc'[t] # pc[t] /\ ~senders.is_empty) =>
              pc'[t] = "r_notify_locked"

\* C37: between the critical sections of a SyncWaker its is_empty flag is true
\* exactly when the registry has no selector and no observer entry: register,
\* unregister, disconnect and the locked part of notify refresh it; a notify()
\* that finds the flag set returns without taking the mutex and without
\* changing the wakers or any context.
C37_IsEmptyFlag == [][FlagsMatch /\ FlagsMatch' /\ NotifyEmptyStep]_vars

\* a sender that has written is about to notify the receivers, whose registry
\* is empty and flagged so, while the senders' registry holds a parked sender
\* and is flagged non-empty
C37_Witness ==
    \E t \in Senders :
        /\ pc[t] = "w_notify"
        /\ receivers.is_empty
        /\ ~senders.is_empty
        /\ Len(senders.inner.selectors) > 0

\* the threads that hold a pointer to the packet of thread q in their token
\* and have their write or read still to do
PacketUsers(q) ==
    {u \in Threads : pc[u] \in {"z_write", "z_read"} /\ token[u].zero = <<q>>}

\* C38: zero channel: while a counterpart still has its write or read of a
\* parked thread's packet to do, that thread has not returned (its packet is
\* on its stack, not ready yet) and at most that one counterpart uses the
\* packet; a pairing receiver finds Some(msg) in the sender's packet, a pairing
\* sender finds None in the receiver's; a parked receiver that sees ready finds
\* the message written; no access reaches a released packet and no unwrap of a
\* packet message meets None.
C38_PacketLifetime ==
    flavor = "zero" =>
        /\ \A u \in Threads :
              pc[u] \in {"z_write", "z_read"} =>
                  /\ token[u].zero # Null
                  /\ LET q == token[u].zero[1] IN
                     /\ pc[q] \in {"wait", "park", "z_wait_ready"}
                     /\ select[q] = Operation_hook(q)
                     /\ packet[q] # Null
                     /\ ~packet[q].ready
                     /\ PacketUsers(q) = {u}
                     /\ pc[u] = "z_read" => (q \in Senders /\ packet[q].msg = msg[q])
                     /\ pc[u] = "z_write" => (q \in Receivers /\ packet[q].msg = NoMsg)
        /\ \A t \in Threads :
              /\ (pc[t] = "z_wait_ready" /\ packet[t].ready) =>
                    /\ PacketUsers(t) = {}
                    /\ t \in Receivers => packet[t].msg # NoMsg
                    /\ t \in Senders => packet[t].msg = NoMsg
              /\ pc[t] \in {"z_aborted", "z_disconnected"} =>
                    /\ PacketUsers(t) = {}
                    /\ t \in Senders => packet[t].msg = msg[t]
              /\ pc[t] \notin {"dangling", "panicked"}

\* a parked receiver has been selected and already spins on ready while the
\* pairing sender has its write into the receiver's packet still to do
C38_Witness ==
    /\ flavor = "zero"
    /\ \E r \in Receivers, s \in Senders :
          /\ pc[r] = "z_wait_ready"
          /\ ~packet[r].ready
          /\ pc[s] = "z_write"
          /\ token[s].zero = <<r>>

(* ------------------------------ C39 ----------------------------------- *)
\* a spin call of thread t returns: its loop is over, or it has yielded
SpinLightReturns(t) == pc[t] = "spin_light" /\ pc'[t] = "backoff"
SpinHeavyLoopReturns(t) == pc[t] = "spin_heavy" /\ pc'[t] = "backoff"
SpinHeavyYields(t) == pc[t] = "backoff" /\ pc'[t] = "backoff" /\ backoff'[t] # backoff[t]

\* 2^min(k, 6) and min(k, 6)^2, for k = 0, 1, ...
ExponentialHints(k) == <<1, 2, 4, 8, 16, 32, 64>>[(IF k < 6 THEN k ELSE 6) + 1]
QuadraticHints(k) == <<0, 1, 4, 9, 16, 25, 36>>[(IF k < 6 THEN k ELSE 6) + 1]

\* C39 as stated: the call of spin_light made at step k, on a Backoff created
\* with step 0, has executed 2^min(k, 6) spin hints when it returns.
C39_AsStated ==
    [][\A t \in Threads : SpinLightReturns(t) => spin_hints[t] = ExponentialHints(backoff[t])]_vars

BackoffCallStep ==
    \A t \in Threads :
        /\ (pc[t] = "idle" /\ pc'[t] = "backoff") => backoff'[t] = 0
        /\ SpinLightReturns(t) =>
               /\ spin_hints[t] = QuadraticHints(backoff[t])
               /\ yields[t] = 0
               /\ backoff'[t] = backoff[t] + 1
        /\ SpinHeavyLoopReturns(t) =>
               /\ backoff[t] <= 6
               /\ spin_hints[t] = QuadraticHints(backoff[t])
               /\ yields[t] = 0
               /\ backoff'[t] = backoff[t] + 1
        /\ SpinHeavyYields(t) =>
               /\ backoff[t] > 6
               /\ spin_hints'[t] = 0
               /\ yields'[t] = 1
               /\ backoff'[t] = backoff[t] + 1
        /\ Backoff_is_completed(backoff[t]) <=> backoff[t] > 6

\* C39: on a Backoff created with step 0, the call of spin_light made at step
\* k executes min(k, 6)^2 spin hints; spin_heavy executes the same number of
\* hints while step <= 6 and yields the thread, with no hint, once step > 6;
\* every call adds one to step; is_completed() is true exactly when step > 6.
C39_BackoffSpinCount == [][BackoffCallStep]_vars

\* a spin_light call made past the limit has run its 36 hints
C39_Witness ==
    \E t \in Threads :
        /\ pc[t] = "spin_light"
        /\ backoff[t] > SPIN_LIMIT
        /\ loc[t] = loc2[t]
        /\ spin_hints[t] = 36
====
